---- MODULE Spec2Model ----
(***************************************************************************)
(* State-machine model of the Absalom knowledge engine: the entity        *)
(* extractor and co-occurrence graph store (extractor.js, graph.js), the  *)
(* file watcher (watcher.js), the start script (start.js) and the         *)
(* WebSocket hub (server.js).                                             *)
(*                                                                         *)
(* JavaScript strings are modelled as tuples of one-character strings, so *)
(* that normalize(), Array.prototype.sort() and the length filters are    *)
(* computed as the code computes them.                                    *)
(***************************************************************************)
EXTENDS Integers, Sequences, FiniteSets, TLC

VARIABLES
  now,        \* Date.now(): the wall clock, in ms
  graphs,     \* KnowledgeGraph objects: slot -> [nodes, edges, lastUpdated]
  heap,       \* edge objects; graphs and snapshots hold references into it
  snapshot,   \* the value returned by the last KnowledgeGraph.toJSON() call
  lastOp,     \* the last operation performed, with its arguments
  steps,      \* number of operations performed so far
  fsys,       \* the workspace: path -> content, or NoFile
  fw,         \* the FileWatcher: fileHashes, pendingUpdates, timers, watcher
  emitted,    \* the events the FileWatcher has emitted, in order
  hist,       \* per path: the last watcher event, bursts seen, bursts processed
  server,     \* the KnowledgeServer: graph, and the number of setGraph calls
  clients,    \* the WebSocket clients: connection state and frames received
  engine,     \* the start script: started, watcher wired
  gc,         \* the GraphClient: ws, connected, reconnect state, graph
  sockets     \* the WebSocket objects the GraphClient has created

storeVars == <<graphs, heap, snapshot, lastOp, steps>>
watcherVars == <<fsys, fw, emitted, hist>>
clientVars == <<gc, sockets>>
serverVars == <<server, clients, engine, clientVars>>

-----------------------------------------------------------------------------
(* Bounds *)

MaxTime == 2
MaxSteps == 3
NumGraphs == 2
\* the watcher's clock advances in steps of TickMs up to MaxClock
TickMs == 250
MaxClock == 1501
\* file system events, setGraph calls and client messages per behaviour
MaxEvents == 3
MaxCalls == 3
MaxMessages == 5
\* tokens of a text handed to extractEntities directly
MaxTokens == 2
\* entities of one district handed to generateBuildings
MaxEntities == 101
NumClients == 2
\* WebSocket objects one GraphClient creates
MaxSockets == 2
\* reconnections of one GraphClient in a row
MaxReconnects == 11

-----------------------------------------------------------------------------
(* Strings *)

\* the characters used, in increasing UTF-16 code unit order
CharOrder ==
  << " ", "!", "#", "$", "-", ".", "/", ":",
     "A", "B", "C", "D", "E", "F", "G", "H", "I", "J", "K", "L", "M",
     "N", "O", "P", "Q", "R", "S", "T", "U", "V", "W", "X", "Y", "Z",
     "_",
     "a", "b", "c", "d", "e", "f", "g", "h", "i", "j", "k", "l", "m",
     "n", "o", "p", "q", "r", "s", "t", "u", "v", "w", "x", "y", "z" >>

Chars == {CharOrder[i] : i \in 1..Len(CharOrder)}

Code == [c \in Chars |-> CHOOSE i \in 1..Len(CharOrder) : CharOrder[i] = c]

Min(a, b) == IF a <= b THEN a ELSE b
Max(a, b) == IF a >= b THEN a ELSE b

IsUpper(c) == Code[c] >= Code["A"] /\ Code[c] <= Code["Z"]
IsLower(c) == Code[c] >= Code["a"] /\ Code[c] <= Code["z"]
IsSpace(c) == c = " "
\* \w of a JavaScript regular expression
IsWordChar(c) == IsUpper(c) \/ IsLower(c) \/ c = "_"

ToLowerChar(c) == IF IsUpper(c) THEN CharOrder[Code[c] + (Code["a"] - Code["A"])] ELSE c
ToLowerCase(s) == [i \in 1..Len(s) |-> ToLowerChar(s[i])]

\* String.prototype.trim
Trim(s) ==
  LET idx == {i \in 1..Len(s) : ~IsSpace(s[i])}
  IN IF idx = {} THEN <<>>
     ELSE SubSeq(s, CHOOSE i \in idx : \A j \in idx : i <= j,
                    CHOOSE i \in idx : \A j \in idx : i >= j)

\* s.replace(/\s+/g, '_')
ReplaceSpaceRuns(s) ==
  LET keep == {i \in 1..Len(s) : ~(IsSpace(s[i]) /\ i > 1 /\ IsSpace(s[i-1]))}
      F[i \in 0..Len(s)] ==
        IF i = 0 THEN <<>>
        ELSE IF i \in keep
             THEN Append(F[i-1], IF IsSpace(s[i]) THEN "_" ELSE s[i])
             ELSE F[i-1]
  IN F[Len(s)]

\* the < of JavaScript strings: lexicographic on code units
StrLess(a, b) ==
  \E k \in 0..Min(Len(a), Len(b)) :
    /\ \A i \in 1..k : a[i] = b[i]
    /\ \/ k = Len(a) /\ k < Len(b)
       \/ k < Len(a) /\ k < Len(b) /\ Code[a[k+1]] < Code[b[k+1]]

StrLeq(a, b) == a = b \/ StrLess(a, b)

\* [...new Set(list)]: first occurrences, in order
Dedupe(list) ==
  LET F[i \in 0..Len(list)] ==
        IF i = 0 THEN <<>>
        ELSE IF \E j \in 1..(i-1) : list[j] = list[i] THEN F[i-1]
             ELSE Append(F[i-1], list[i])
  IN F[Len(list)]

\* list.map(f)
Map(list, f(_)) == [i \in 1..Len(list) |-> f(list[i])]

\* a slip in addNode: the sources are kept in an array, push for add
SetAdd_Appends(set, x) == Append(set, x)

\* set.add(x) for a Set kept in insertion order
SetAdd(set, x) == IF \E i \in 1..Len(set) : set[i] = x THEN set ELSE Append(set, x)

Range(f) == {f[x] : x \in DOMAIN f}
AsSetOf(seq) == {seq[i] : i \in 1..Len(seq)}

-----------------------------------------------------------------------------
(* Extractor *)

NormalizeCap == 100

normalize(label) ==
  IF label = <<>> THEN <<>>
  ELSE LET s1 == ReplaceSpaceRuns(Trim(ToLowerCase(label)))
           s2 == SelectSeq(s1, LAMBDA c : IsWordChar(c) \/ c = "-")
       IN SubSeq(s2, 1, Min(Len(s2), NormalizeCap))

TICKER_BLACKLIST == {
  <<"I">>, <<"A">>, <<"I","T">>, <<"I","S">>, <<"B","E">>, <<"T","O">>,
  <<"I","N">>, <<"O","N">>, <<"A","T">>, <<"B","Y">>, <<"O","R">>,
  <<"A","N">>, <<"A","S">>, <<"I","F">>, <<"O","F">>, <<"S","O">>,
  <<"D","O">>, <<"U","P">>, <<"N","O">>, <<"G","O">>, <<"M","Y">>,
  <<"W","E">>, <<"U","S">>, <<"A","M">>, <<"P","M">>, <<"O","K">>,
  <<"V","S">>, <<"A","I">>, <<"U","I">>, <<"U","X">>, <<"I","D">>,
  <<"J","S">>, <<"T","S">>, <<"M","D">>, <<"C","S","S">>,
  <<"H","T","M","L">>, <<"A","P","I">>, <<"C","L","I">>, <<"S","D","K">>,
  <<"U","R","L">>, <<"S","S","H">>, <<"V","P","S">>, <<"C","P","U">>,
  <<"G","P","U">>, <<"R","A","M">>, <<"S","S","D">>, <<"H","D","D">>,
  <<"F","O","R">>, <<"T","H","E">>, <<"A","N","D">>, <<"B","U","T">>,
  <<"N","O","T">>, <<"Y","O","U">>, <<"A","L","L">>, <<"C","A","N">>,
  <<"H","A","D">>, <<"H","E","R">>, <<"W","A","S">>, <<"O","N","E">>,
  <<"O","U","R">>, <<"O","U","T">>, <<"D","A","Y">>, <<"G","E","T">>,
  <<"H","A","S">>, <<"H","I","M">>, <<"H","I","S">>, <<"H","O","W">>,
  <<"N","E","W">>, <<"N","O","W">>, <<"O","L","D">>, <<"S","E","E">>,
  <<"W","A","Y">>, <<"W","H","O">>, <<"B","O","Y">>, <<"D","I","D">>,
  <<"I","T","S">>, <<"L","E","T">>, <<"P","U","T">>, <<"S","A","Y">>,
  <<"S","H","E">>, <<"T","O","O">>, <<"U","S","E">>, <<"T","O","D","O">>,
  <<"N","O","T","E">>, <<"T","E","M","P">>, <<"T","E","S","T">>,
  <<"D","O","N","E">>
}

isTicker(str) ==
  /\ Len(str) >= 2 /\ Len(str) <= 5
  /\ str \notin TICKER_BLACKLIST
  /\ \A i \in 1..Len(str) : IsUpper(str[i])

\* /^[#\-*`(\[<>@$%]/ and /[`\[\](){}<>]/ restricted to the characters used
SpecialStart == {"#", "-", "$"}
Articles == { <<"t", "h", "e">>, <<"a">>, <<"a", "n">>, <<"i", "s">>, <<"a", "r", "e">>, <<"w", "a", "s">>, <<"w", "e", "r", "e">>, <<"b", "e">>, <<"b", "e", "e", "n">>, <<"b", "e", "i", "n", "g">> }

\* cleanEntity: trimmed, at least 3 characters, no special first character,
\* no article
cleanEntity(arr) ==
  SelectSeq(Map(arr, Trim),
            LAMBDA t : /\ Len(t) > 2
                       /\ t[1] \notin SpecialStart
                       /\ ToLowerCase(t) \notin Articles)

(***************************************************************************)
(* A markdown text is a sequence of tokens.  A token is a maximal piece   *)
(* of text that one of the extractor's patterns reads as a whole:         *)
(*   word      plain word                                                  *)
(*   code      `text`                     (tool pattern)                   *)
(*   url       http(s)://...              (URL pattern)                    *)
(*   header    "# text" on a line of its own   (header pattern)            *)
(*   task      "- [x] text"               (completed checkbox)             *)
(*   decided   "decided to text"          (DECISION_PATTERNS)              *)
(*   cashtag   "$TEXT"; the ticker pattern reads the run after the "$"     *)
(*   topic, person, organization: a word that the NLP pass tags so        *)
(* pre is the white space before the token: "start" (none, first token),  *)
(* "space", "nl" (one newline) or "blank" (two or more newlines).         *)
(***************************************************************************)
Tok(kind, text, pre) == [kind |-> kind, text |-> text, pre |-> pre]

TokenLen(tok) ==
  CASE tok.kind = "code" -> Len(tok.text) + 2
    [] tok.kind = "header" -> Len(tok.text) + 2
    [] tok.kind = "task" -> Len(tok.text) + 6
    [] tok.kind = "decided" -> Len(tok.text) + 11
    [] tok.kind = "cashtag" -> Len(tok.text) + 1
    [] OTHER -> Len(tok.text)

\* p.length of a paragraph: its tokens and one separator between neighbours
ParaLength(para) ==
  LET F[i \in 0..Len(para)] ==
        IF i = 0 THEN 0
        ELSE F[i-1] + TokenLen(para[i]) + (IF i > 1 THEN 1 ELSE 0)
  IN F[Len(para)]

MinParaLength == 10

\* markdown.split(/\n\n+|\n(?=#{1,3}\s)/)
SplitParagraphs(markdown) ==
  LET starts == {i \in 1..Len(markdown) :
                   \/ i = 1
                   \/ markdown[i].pre = "blank"
                   \/ markdown[i].pre = "nl" /\ markdown[i].kind = "header"}
      last(i) == IF \E j \in starts : j > i
                 THEN (CHOOSE j \in starts : j > i /\ \A k \in starts : k > i => j <= k) - 1
                 ELSE Len(markdown)
      F[i \in 0..Len(markdown)] ==
        IF i = 0 THEN <<>>
        ELSE IF i \in starts THEN Append(F[i-1], SubSeq(markdown, i, last(i)))
             ELSE F[i-1]
  IN F[Len(markdown)]

TextsOf(para, kinds) ==
  Map(SelectSeq(para, LAMBDA tok : tok.kind \in kinds), LAMBDA tok : tok.text)

\* u.replace(/[.,;:]+$/, '')
StripTrailingPunct(u) ==
  LET idx == {i \in 1..Len(u) : u[i] \notin {".", ":"}}
  IN IF idx = {} THEN <<>>
     ELSE SubSeq(u, 1, CHOOSE i \in idx : \A j \in idx : i >= j)

AllKinds == {"word", "code", "url", "header", "task", "decided",
             "topic", "person", "organization", "cashtag"}

\* markdown.match(/\b[A-Z]{2,5}\b/g): the tokens that are one upper-case run
UpperRuns(para) ==
  SelectSeq(TextsOf(para, AllKinds),
            LAMBDA t : Len(t) >= 2 /\ Len(t) <= 5 /\ \A i \in 1..Len(t) : IsUpper(t[i]))

createEmptyResult ==
  [topics |-> <<>>, people |-> <<>>, organizations |-> <<>>, tickers |-> <<>>,
   tools |-> <<>>, urls |-> <<>>, headers |-> <<>>, decisions |-> <<>>]

extractEntities(markdown) ==
  IF markdown = <<>> THEN createEmptyResult
  ELSE
    [topics |-> Dedupe(cleanEntity(TextsOf(markdown, {"topic"}))),
     people |-> Dedupe(cleanEntity(TextsOf(markdown, {"person"}))),
     organizations |-> Dedupe(cleanEntity(TextsOf(markdown, {"organization"}))),
     tickers |-> Dedupe(SelectSeq(UpperRuns(markdown), isTicker)),
     tools |-> Dedupe(SelectSeq(Map(TextsOf(markdown, {"code"}), Trim),
                 LAMBDA t : Len(t) > 0 /\ Len(t) < 50 /\ \A i \in 1..Len(t) : ~IsSpace(t[i]))),
     urls |-> Dedupe(Map(TextsOf(markdown, {"url"}), StripTrailingPunct)),
     headers |-> SelectSeq(Map(TextsOf(markdown, {"header"}), Trim), LAMBDA h : Len(h) > 0),
     decisions |-> Dedupe(
        SelectSeq(Map(TextsOf(markdown, {"task"}), Trim), LAMBDA d : Len(d) > 5)
        \o SelectSeq(Map(TextsOf(markdown, {"decided"}), LAMBDA d : StripTrailingPunct(Trim(d))),
                     LAMBDA d : Len(d) > 5 /\ Len(d) < 100))]

\* the entities of each paragraph that is longer than 10 characters
extractByParagraph(markdown) ==
  IF markdown = <<>> THEN <<>>
  ELSE Map(SelectSeq(SplitParagraphs(markdown), LAMBDA p : ParaLength(p) > MinParaLength),
           extractEntities)

-----------------------------------------------------------------------------
(* Graph store *)

\* Object.entries(typeMap), in declaration order
typeMap ==
  << <<"topics", "topic">>, <<"people", "person">>,
     <<"organizations", "organization">>, <<"tickers", "ticker">>,
     <<"tools", "tool">>, <<"urls", "url">>, <<"headers", "header">>,
     <<"decisions", "decision">> >>

TypeName ==
  [topic |-> <<"t", "o", "p", "i", "c">>,
   person |-> <<"p", "e", "r", "s", "o", "n">>,
   organization |-> <<"o", "r", "g", "a", "n", "i", "z", "a", "t", "i", "o", "n">>,
   ticker |-> <<"t", "i", "c", "k", "e", "r">>,
   tool |-> <<"t", "o", "o", "l">>,
   url |-> <<"u", "r", "l">>,
   header |-> <<"h", "e", "a", "d", "e", "r">>,
   decision |-> <<"d", "e", "c", "i", "s", "i", "o", "n">>]

\* `${singular}:${normalize(item)}`
NodeId(singular, item) == TypeName[singular] \o <<":">> \o normalize(item)

\* the (id, label, type) triples buildGraph visits for one paragraph, in order
ParagraphItems(entities) ==
  LET F[k \in 0..Len(typeMap)] ==
        IF k = 0 THEN <<>>
        ELSE F[k-1] \o
             Map(entities[typeMap[k][1]],
                 LAMBDA item : [id |-> NodeId(typeMap[k][2], item),
                                label |-> item, type |-> typeMap[k][2]])
  IN F[Len(typeMap)]

KnowledgeGraph(t) == [nodes |-> <<>>, edges |-> <<>>, lastUpdated |-> t]

\* a slip in addEdge: the pair is joined without being sorted
EdgeId_Unsorted(sourceId, targetId) == <<sourceId, targetId>>

\* [sourceId, targetId].sort().join('↔'); the joined string is modelled by
\* the sorted pair, which it determines (no id contains the joiner)
EdgeId(sourceId, targetId) ==
  IF StrLess(targetId, sourceId) THEN <<targetId, sourceId>> ELSE <<sourceId, targetId>>

\* a slip in addNode: a new node starts with weight 0
addNode_StartsAtZero(g, id, label, type, source, t) ==
  IF id \in DOMAIN g.nodes
  THEN [g EXCEPT !.nodes[id] = [@ EXCEPT !.weight = @ + 1,
                                         !.lastSeen = t,
                                         !.sources = SetAdd(@, source)]]
  ELSE [g EXCEPT !.nodes = @ @@ (id :> [id |-> id, label |-> label, type |-> type,
                                        weight |-> 0, firstSeen |-> t, lastSeen |-> t,
                                        sources |-> <<source>>])]

\* a slip in addNode: lastSeen is set on a repeated mention only, a new node
\* has none
addNode_NoLastSeen(g, id, label, type, source, t) ==
  IF id \in DOMAIN g.nodes
  THEN [g EXCEPT !.nodes[id] = [@ EXCEPT !.weight = @ + 1,
                                         !.lastSeen = t,
                                         !.sources = SetAdd(@, source)]]
  ELSE [g EXCEPT !.nodes = @ @@ (id :> [id |-> id, label |-> label, type |-> type,
                                        weight |-> 1, firstSeen |-> t, lastSeen |-> 0,
                                        sources |-> <<source>>])]

addNode(g, id, label, type, source, t) ==
  IF id \in DOMAIN g.nodes
  THEN [g EXCEPT !.nodes[id] = [@ EXCEPT !.weight = @ + 1,
                                         !.lastSeen = t,
                                         !.sources = SetAdd(@, source)]]
  ELSE [g EXCEPT !.nodes = @ @@ (id :> [id |-> id, label |-> label, type |-> type,
                                        weight |-> 1, firstSeen |-> t, lastSeen |-> t,
                                        sources |-> <<source>>])]

(***************************************************************************)
(* A world W = [graphs, heap] holds the KnowledgeGraph objects and the    *)
(* edge objects they refer to.  g.edges maps an edge id to a reference    *)
(* (an index into heap), because toJSON and fromJSON hand edge objects on *)
(* by reference.  Node objects are copied wherever they are handed on     *)
(* (getNodes, fromJSON, mergeGraphs) and are kept by value.               *)
(***************************************************************************)
\* a slip in addEdge: an existing edge is overwritten by a new one
addEdge_Overwrites(W, k, sourceId, targetId, t) ==
  LET edgeId == EdgeId(sourceId, targetId)
      g == W.graphs[k]
  IN IF edgeId \in DOMAIN g.edges
     THEN [W EXCEPT !.heap[g.edges[edgeId]] =
                       [@ EXCEPT !.weight = 1, !.lastSeen = t]]
     ELSE [graphs |-> [W.graphs EXCEPT ![k].edges = @ @@ (edgeId :> Len(W.heap) + 1)],
           heap |-> Append(W.heap, [id |-> edgeId, source |-> sourceId,
                                    target |-> targetId, weight |-> 1,
                                    lastSeen |-> t])]

addEdge(W, k, sourceId, targetId, t) ==
  LET edgeId == EdgeId(sourceId, targetId)
      g == W.graphs[k]
  IN IF edgeId \in DOMAIN g.edges
     THEN [W EXCEPT !.heap[g.edges[edgeId]] =
                       [@ EXCEPT !.weight = @ + 1, !.lastSeen = t]]
     ELSE [graphs |-> [W.graphs EXCEPT ![k].edges = @ @@ (edgeId :> Len(W.heap) + 1)],
           heap |-> Append(W.heap, [id |-> edgeId, source |-> sourceId,
                                    target |-> targetId, weight |-> 1,
                                    lastSeen |-> t])]

\* the pairs (i, j), i < j, in the order of buildGraph's nested loops
IndexPairs(n) ==
  LET F[m \in 0..(n * n)] ==
        IF m = 0 THEN <<>>
        ELSE LET i == ((m - 1) \div n) + 1
                 j == ((m - 1) % n) + 1
             IN IF i < j THEN Append(F[m-1], <<i, j>>) ELSE F[m-1]
  IN F[n * n]

\* one iteration of buildGraph's loop over the paragraphs
buildParagraph(W, k, entities, source, t) ==
  LET items == ParagraphItems(entities)
      nodeIds == Map(items, LAMBDA it : it.id)
      N[i \in 0..Len(items)] ==
        IF i = 0 THEN W.graphs[k]
        ELSE addNode(N[i-1], items[i].id, items[i].label, items[i].type, source, t)
      W1 == [W EXCEPT !.graphs[k] = N[Len(items)]]
      pairs == IndexPairs(Len(nodeIds))
      E[m \in 0..Len(pairs)] ==
        IF m = 0 THEN W1
        ELSE addEdge(E[m-1], k, nodeIds[pairs[m][1]], nodeIds[pairs[m][2]], t)
  IN E[Len(pairs)]

\* a slip in buildGraph: every build marks the nodes of the graph as seen
buildGraph_TouchesNodes(W, k, markdown, source, t) ==
  LET paragraphs == extractByParagraph(markdown)
      F[i \in 0..Len(paragraphs)] ==
        IF i = 0 THEN W
        ELSE buildParagraph(F[i-1], k, paragraphs[i], source, t)
  IN [F[Len(paragraphs)] EXCEPT
        !.graphs[k].lastUpdated = t,
        !.graphs[k].nodes = [id \in DOMAIN @ |-> [@[id] EXCEPT !.lastSeen = t]]]

buildGraph(W, k, markdown, source, t) ==
  LET paragraphs == extractByParagraph(markdown)
      F[i \in 0..Len(paragraphs)] ==
        IF i = 0 THEN W
        ELSE buildParagraph(F[i-1], k, paragraphs[i], source, t)
  IN [F[Len(paragraphs)] EXCEPT !.graphs[k].lastUpdated = t]

-----------------------------------------------------------------------------
(* Inputs: labels, documents and source paths *)

Git == <<"G", "i", "t">>
git == <<"g", "i", "t">>
NVDA == <<"N", "V", "D", "A">>
Notes == <<"N", "o", "t", "e", "s">>
Url == <<"h", "t", "t", "p", "s", ":", "/", "/", "x", ".", "i", "o">>
review == <<"r", "e", "v", "i", "e", "w">>

\* "`Git` NVDA review": a tool and a ticker in one paragraph
DocPair == << Tok("code", Git, "start"), Tok("word", NVDA, "space"),
              Tok("word", review, "space") >>

\* "`Git` `git` NVDA": two spellings of one tool, and a ticker
DocAlias == << Tok("code", Git, "start"), Tok("code", git, "space"),
               Tok("word", NVDA, "space") >>

\* "`Git` review\n\nNVDA review": the tool and the ticker in two paragraphs
DocSplit == << Tok("code", Git, "start"), Tok("word", review, "space"),
               Tok("word", NVDA, "blank"), Tok("word", review, "space") >>

\* "# Notes\nhttps://x.io": a header line and a URL in one paragraph
DocHeader == << Tok("header", Notes, "start"), Tok("url", Url, "nl") >>

\* "NVDA review\n# Notes": the header line starts a paragraph of 7 characters
DocHeaderSplit == << Tok("word", NVDA, "start"), Tok("word", review, "space"),
                     Tok("header", Notes, "nl") >>

\* "": an empty file
DocEmpty == << >>

\* the files handed to buildGraph: a content and the path it was read from
Files ==
  { [markdown |-> DocPair, source |-> "MEMORY.md"],
    [markdown |-> DocAlias, source |-> "memory/2026-01-15.md"],
    [markdown |-> DocSplit, source |-> "MEMORY.md"],
    [markdown |-> DocHeader, source |-> "memory/2026-01-15.md"],
    [markdown |-> DocHeaderSplit, source |-> "MEMORY.md"],
    [markdown |-> DocEmpty, source |-> "memory/2026-01-15.md"] }

Docs == {f.markdown : f \in Files}

\* the arguments of buildGraphFromFiles
FileLists ==
  { << >>,
    << [markdown |-> DocPair, source |-> "MEMORY.md"],
       [markdown |-> DocHeader, source |-> "memory/2026-01-15.md"] >> }

PLAN == <<"P", "L", "A", "N">>
THE == <<"T", "H", "E">>

\* the tokens of the texts handed to extractEntities directly: upper-case
\* runs with and without "$", one of them in TICKER_BLACKLIST
ExtractTokens ==
  {[kind |-> "word", text |-> PLAN], [kind |-> "word", text |-> NVDA],
   [kind |-> "cashtag", text |-> NVDA], [kind |-> "word", text |-> review],
   [kind |-> "word", text |-> THE], [kind |-> "cashtag", text |-> THE]}

\* texts of up to MaxTokens tokens on one line
ExtractDocs ==
  UNION {{[i \in 1..n |-> Tok(f[i].kind, f[i].text, IF i = 1 THEN "start" ELSE "space")]
            : f \in [1..n -> ExtractTokens]} : n \in 1..MaxTokens}

\* "`Git` NVDA review\n\n`Git` NVDA review": one paragraph, twice
DocTwice == << Tok("code", Git, "start"), Tok("word", NVDA, "space"),
               Tok("word", review, "space"),
               Tok("code", Git, "blank"), Tok("word", NVDA, "space"),
               Tok("word", review, "space") >>

\* the files of a workspace handed to buildGraphFromFiles in any order
WorkspaceFiles ==
  { [markdown |-> DocPair, source |-> "MEMORY.md"],
    [markdown |-> DocHeader, source |-> "memory/2026-01-15.md"],
    [markdown |-> DocTwice, source |-> "SOUL.md"] }

\* the arrangements of the elements of S in a list
Arrangements(S) ==
  {q \in [1..Cardinality(S) -> S] : \A i, j \in 1..Cardinality(S) : q[i] = q[j] => i = j}

\* every list of distinct files of the workspace
Orderings == UNION {Arrangements(S) : S \in SUBSET WorkspaceFiles}

\* the entities passed to addNode and addEdge directly
DirectItems ==
  { [id |-> NodeId("tool", Git), label |-> Git, type |-> "tool"],
    [id |-> NodeId("ticker", NVDA), label |-> NVDA, type |-> "ticker"] }
DirectIds == {it.id : it \in DirectItems}

-----------------------------------------------------------------------------
(* Graph store, continued *)

\* an enumeration of a finite set (the iteration order of a Map's values)
RECURSIVE SetToSeq(_)
SetToSeq(S) ==
  IF S = {} THEN <<>>
  ELSE LET x == CHOOSE y \in S : TRUE IN <<x>> \o SetToSeq(S \ {x})

\* copies of the node objects, sources as arrays
getNodes(g) == [id \in DOMAIN g.nodes |-> g.nodes[id]]

\* the edge objects themselves (references), not copies
getEdges(g) == g.edges

toJSON(g) ==
  [nodes |-> getNodes(g), edges |-> getEdges(g), lastUpdated |-> g.lastUpdated,
   nodeCount |-> Cardinality(DOMAIN g.nodes),
   edgeCount |-> Cardinality(DOMAIN g.edges)]

\* a slip in fromJSON: the sources of a node are not taken over
fromJSON_DropsSources(data, t) ==
  [nodes |-> [id \in DOMAIN data.nodes |->
                [data.nodes[id] EXCEPT !.sources = <<>>]],
   edges |-> data.edges,
   lastUpdated |-> IF data.lastUpdated # 0 THEN data.lastUpdated ELSE t]

fromJSON(data, t) ==
  [nodes |-> [id \in DOMAIN data.nodes |->
                [data.nodes[id] EXCEPT !.sources = Dedupe(@)]],
   edges |-> data.edges,
   lastUpdated |-> IF data.lastUpdated # 0 THEN data.lastUpdated ELSE t]

AddAll(set, xs) ==
  LET F[i \in 0..Len(xs)] == IF i = 0 THEN set ELSE SetAdd(F[i-1], xs[i])
  IN F[Len(xs)]

\* a slip in mergeNodes: the nodes only graph2 has are not taken over
mergeNodes_SkipsNew(merged, graph2) ==
  [id \in DOMAIN merged.nodes |->
     IF id \in DOMAIN graph2.nodes
     THEN LET existing == merged.nodes[id]
              node == graph2.nodes[id]
          IN [existing EXCEPT
                !.weight = @ + node.weight,
                !.lastSeen = Max(@, node.lastSeen),
                !.firstSeen = Min(@, node.firstSeen),
                !.sources = AddAll(@, node.sources)]
     ELSE merged.nodes[id]]

\* mergeGraphs, the loop over graph2.nodes: the node map of the merged graph
mergeNodes(merged, graph2) ==
  [id \in DOMAIN merged.nodes \cup DOMAIN graph2.nodes |->
     IF id \in DOMAIN merged.nodes /\ id \in DOMAIN graph2.nodes
     THEN LET existing == merged.nodes[id]
              node == graph2.nodes[id]
          IN [existing EXCEPT
                !.weight = @ + node.weight,
                !.lastSeen = Max(@, node.lastSeen),
                !.firstSeen = Min(@, node.firstSeen),
                !.sources = AddAll(@, node.sources)]
     ELSE IF id \in DOMAIN merged.nodes THEN merged.nodes[id]
     ELSE graph2.nodes[id]]

\* a slip in mergeEdges: lastSeen is overwritten instead of taking the later
mergeEdges_OverwritesLastSeen(h, merged, graph2) ==
  [r \in DOMAIN h |->
     IF \E e \in DOMAIN merged.edges \cap DOMAIN graph2.edges : merged.edges[e] = r
     THEN LET edge == h[graph2.edges[h[r].id]]
          IN [h[r] EXCEPT !.weight = @ + edge.weight, !.lastSeen = edge.lastSeen]
     ELSE h[r]]

\* mergeGraphs, the loop over graph2.edges, has() branch: the edge objects
\* after the updates (existing is an object of the heap, shared with graph1)
mergeEdges(h, merged, graph2) ==
  [r \in DOMAIN h |->
     IF \E e \in DOMAIN merged.edges \cap DOMAIN graph2.edges : merged.edges[e] = r
     THEN LET edge == h[graph2.edges[h[r].id]]
          IN [h[r] EXCEPT !.weight = @ + edge.weight,
                          !.lastSeen = Max(@, edge.lastSeen)]
     ELSE h[r]]

\* returns the world after the call and the merged graph
mergeGraphs(W, k1, k2, t) ==
  LET graph1 == W.graphs[k1]
      graph2 == W.graphs[k2]
      merged == fromJSON(toJSON(graph1), t)
      fresh == SetToSeq(DOMAIN graph2.edges \ DOMAIN merged.edges)
      copies == [i \in 1..Len(fresh) |-> W.heap[graph2.edges[fresh[i]]]]
      edges ==
        [e \in DOMAIN merged.edges \cup DOMAIN graph2.edges |->
           IF e \in DOMAIN merged.edges THEN merged.edges[e]
           ELSE Len(W.heap) + (CHOOSE i \in 1..Len(fresh) : fresh[i] = e)]
  IN [W |-> [W EXCEPT !.heap = mergeEdges(W.heap, merged, graph2) \o copies],
      merged |-> [nodes |-> mergeNodes(merged, graph2), edges |-> edges,
                  lastUpdated |-> t]]

\* a slip in buildGraphFromFiles: the loop starts at the second file
buildGraphFromFiles_SkipsFirst(W, k, files, t) ==
  LET F[i \in 0..Len(files)] ==
        IF i <= 1 THEN [W EXCEPT !.graphs[k] = KnowledgeGraph(t)]
        ELSE buildGraph(F[i-1], k, files[i].markdown, files[i].source, t)
  IN F[Len(files)]

buildGraphFromFiles(W, k, files, t) ==
  LET F[i \in 0..Len(files)] ==
        IF i = 0 THEN [W EXCEPT !.graphs[k] = KnowledgeGraph(t)]
        ELSE buildGraph(F[i-1], k, files[i].markdown, files[i].source, t)
  IN F[Len(files)]

-----------------------------------------------------------------------------
(* File watcher (watcher.js) *)

DEBOUNCE_MS == 500

NoFile == [kind |-> "ENOENT"]

\* a file that exists and whose readFileSync throws (permission denied)
Unreadable == [kind |-> "EACCES"]

\* the files start.js folds into the graph, in order
MEMORY_FILES ==
  << "MEMORY.md", "MEMORY_EXTENDED.md", "SOUL.md", "USER.md", "AGENTS.md", "TOOLS.md" >>

\* the *.md files directly under memory/
MemoryDirFiles == {"memory/2026-01-15.md"}

Paths == AsSetOf(MEMORY_FILES) \cup MemoryDirFiles

\* the paths of the workspace that are written and deleted
WrittenPaths == {"MEMORY.md", "TOOLS.md", "memory/2026-01-15.md"}

\* the contents written
Contents == {DocPair, DocHeader}

\* getWatchPaths: four files and the memory directory
getWatchPaths == {"MEMORY.md", "SOUL.md", "USER.md", "AGENTS.md"} \cup MemoryDirFiles

\* filepath.endsWith('.md'): every path of the model does
EndsWithMd(filepath) == filepath \in Paths

\* crypto.createHash('md5').update(content).digest('hex'): distinct contents
\* of the model have distinct digests
getFileHash(content) == [md5 |-> content]

\* a slip in hasActuallyChanged: the stored hash is not compared
hasActuallyChanged_NoCompare(fileHashes, filepath, content) ==
  [changed |-> TRUE,
   fileHashes |-> (filepath :> getFileHash(content)) @@ fileHashes]

\* returns the result and the hash table after the call
hasActuallyChanged(fileHashes, filepath, content) ==
  LET newHash == getFileHash(content)
  IN IF filepath \notin DOMAIN fileHashes \/ newHash # fileHashes[filepath]
     THEN [changed |-> TRUE, fileHashes |-> (filepath :> newHash) @@ fileHashes]
     ELSE [changed |-> FALSE, fileHashes |-> fileHashes]

MapDelete(f, x) == [y \in DOMAIN f \ {x} |-> f[y]]

\* a slip in scheduleUpdate: the pending timeout is not cleared
scheduleUpdate_NoClear(w, filepath, eventType, t) ==
  [w EXCEPT
     !.timers = @ \cup {[id |-> w.nextTimer, filepath |-> filepath,
                         eventType |-> eventType, due |-> t + w.debounceMs]},
     !.pendingUpdates = (filepath :> w.nextTimer) @@ @,
     !.nextTimer = @ + 1]

\* a slip in scheduleUpdate: the pending timeouts of all paths are cleared
scheduleUpdate_ClearsAll(w, filepath, eventType, t) ==
  [w EXCEPT
     !.timers = {tm \in @ : tm.id \notin Range(w.pendingUpdates)}
                  \cup {[id |-> w.nextTimer, filepath |-> filepath,
                         eventType |-> eventType, due |-> t + w.debounceMs]},
     !.pendingUpdates = (filepath :> w.nextTimer) @@ @,
     !.nextTimer = @ + 1]

\* timers holds the timeouts that are set and neither cleared nor run
scheduleUpdate(w, filepath, eventType, t) ==
  LET live == IF filepath \in DOMAIN w.pendingUpdates
              THEN {tm \in w.timers : tm.id # w.pendingUpdates[filepath]}
              ELSE w.timers
  IN [w EXCEPT
        !.timers = live \cup {[id |-> w.nextTimer, filepath |-> filepath,
                               eventType |-> eventType, due |-> t + w.debounceMs]},
        !.pendingUpdates = (filepath :> w.nextTimer) @@ @,
        !.nextTimer = @ + 1]

\* a slip in processFileChange: a deletion leaves the stored hash in place
processFileChange_KeepsHash(fileHashes, fs, filepath, eventType) ==
  IF ~EndsWithMd(filepath)
  THEN [fileHashes |-> fileHashes, events |-> <<>>, outcome |-> "ignored"]
  ELSE IF eventType = "unlink"
  THEN [fileHashes |-> fileHashes,
        events |-> << [event |-> "file:deleted", path |-> filepath] >>,
        outcome |-> "deleted"]
  ELSE IF fs[filepath] = NoFile
  THEN [fileHashes |-> fileHashes, events |-> <<>>, outcome |-> "ENOENT"]
  ELSE IF fs[filepath] = Unreadable
  THEN [fileHashes |-> fileHashes, events |-> <<>>, outcome |-> "error"]
  ELSE LET r == hasActuallyChanged(fileHashes, filepath, fs[filepath])
       IN IF ~r.changed
          THEN [fileHashes |-> r.fileHashes, events |-> <<>>, outcome |-> "unchanged"]
          ELSE [fileHashes |-> r.fileHashes,
                events |-> << [event |-> "file:changed", path |-> filepath,
                               content |-> fs[filepath],
                               eventType |-> eventType] >>,
                outcome |-> "changed"]

\* returns the hash table after the call, the events emitted and the branch
\* taken
processFileChange(fileHashes, fs, filepath, eventType) ==
  IF ~EndsWithMd(filepath)
  THEN [fileHashes |-> fileHashes, events |-> <<>>, outcome |-> "ignored"]
  ELSE IF eventType = "unlink"
  THEN [fileHashes |-> MapDelete(fileHashes, filepath),
        events |-> << [event |-> "file:deleted", path |-> filepath] >>,
        outcome |-> "deleted"]
  ELSE IF fs[filepath] = NoFile
  THEN [fileHashes |-> fileHashes, events |-> <<>>, outcome |-> "ENOENT"]
  ELSE IF fs[filepath] = Unreadable
  THEN [fileHashes |-> fileHashes, events |-> <<>>, outcome |-> "error"]
  ELSE LET r == hasActuallyChanged(fileHashes, filepath, fs[filepath])
       IN IF ~r.changed
          THEN [fileHashes |-> r.fileHashes, events |-> <<>>, outcome |-> "unchanged"]
          ELSE [fileHashes |-> r.fileHashes,
                events |-> << [event |-> "file:changed", path |-> filepath,
                               content |-> fs[filepath],
                               eventType |-> eventType] >>,
                outcome |-> "changed"]

\* new FileWatcher()
FileWatcher ==
  [fileHashes |-> <<>>, pendingUpdates |-> <<>>, timers |-> {}, nextTimer |-> 1,
   debounceMs |-> DEBOUNCE_MS, watcher |-> FALSE]

-----------------------------------------------------------------------------
(* Hub (server.js) and start script (start.js) *)

\* getSourceWeight of decay.js: the first pattern of SOURCE_WEIGHTS that the
\* path includes, for the paths of the model
getSourceWeight(filepath) ==
  CASE filepath = "SOUL.md" -> 5
    [] filepath = "MEMORY.md" -> 3
    [] filepath = "USER.md" -> 3
    [] filepath = "AGENTS.md" -> 2
    [] filepath = "TOOLS.md" -> 2
    [] filepath \in MemoryDirFiles -> 1
    [] OTHER -> 1

MaxOver(seq, f(_), least) ==
  LET F[i \in 0..Len(seq)] == IF i = 0 THEN least ELSE Max(F[i-1], f(seq[i]))
  IN F[Len(seq)]

(***************************************************************************)
(* Temporal decay.  Times are in days here: the decay factor depends on   *)
(* age / halfLife only.  The factor Math.pow(0.5, x) is kept as its       *)
(* exponent x = num / den, a fraction; zero marks the factor 0.           *)
(***************************************************************************)
HALF_LIVES ==
  [topic |-> 30, person |-> 60, organization |-> 45, ticker |-> 7, tool |-> 90,
   url |-> 14, header |-> 30, decision |-> 60, default |-> 30]

getHalfLife(type) ==
  IF type \in DOMAIN HALF_LIVES THEN HALF_LIVES[type] ELSE HALF_LIVES["default"]

\* 0.5 to the power num / den
Pow05(num, den) == [zero |-> FALSE, num |-> num, den |-> den]

\* a slip in calculateDecayFactor: a negative age is not clamped
calculateDecayFactor_NoClamp(age, halfLife) ==
  IF halfLife <= 0 THEN [zero |-> TRUE, num |-> 0, den |-> 1]
  ELSE Pow05(age, halfLife)

calculateDecayFactor(age, halfLife) ==
  IF age <= 0 THEN Pow05(0, 1)
  ELSE IF halfLife <= 0 THEN [zero |-> TRUE, num |-> 0, den |-> 1]
  ELSE Pow05(age, halfLife)

\* a product coef * factor
Scaled(coef, factor) == [coef |-> coef, factor |-> factor]

\* applyDecay(node, now), node with sources as an array
applyDecay(node, t) ==
  LET halfLife == getHalfLife(node.type)
      age == t - node.lastSeen
      decayFactor == calculateDecayFactor(age, halfLife)
      bonus == MaxOver(node.sources, getSourceWeight, 1)
  IN [displayWeight |-> Scaled(node.weight * bonus, decayFactor),
      decayFactor |-> decayFactor, sourceBonus |-> bonus, age |-> age] @@ node

\* applyDecayToGraph(graph, now), the arrays keyed by id
applyDecayToGraph(graph, t) ==
  [nodes |-> [id \in DOMAIN graph.nodes |-> applyDecay(graph.nodes[id], t)],
   edges |-> [e \in DOMAIN graph.edges |->
                LET age == t - graph.edges[e].lastSeen
                    decayFactor == calculateDecayFactor(age, HALF_LIVES["default"])
                IN [displayWeight |-> Scaled(graph.edges[e].weight, decayFactor),
                    decayFactor |-> decayFactor, age |-> age] @@ graph.edges[e]],
   decayedAt |-> t]

\* node.displayWeight || node.weight; weights are in tenths, a displayWeight
\* that is absent is the empty sequence, 0 is falsy
EffectiveWeight(node) ==
  IF node.displayWeight = <<>> \/ node.displayWeight[1] = 0
  THEN node.weight
  ELSE node.displayWeight[1]

\* groupByDecay(nodes): the thresholds 0.3 and 0.7 are 3 and 7 tenths
groupByDecay(nodes) ==
  LET F[i \in 0..Len(nodes)] ==
        IF i = 0 THEN [fading |-> <<>>, stable |-> <<>>, strong |-> <<>>]
        ELSE LET weight == EffectiveWeight(nodes[i])
             IN IF weight < 3 THEN [F[i-1] EXCEPT !.fading = Append(@, nodes[i])]
                ELSE IF weight < 7 THEN [F[i-1] EXCEPT !.stable = Append(@, nodes[i])]
                ELSE [F[i-1] EXCEPT !.strong = Append(@, nodes[i])]
  IN F[Len(nodes)]

\* the files loadGraph reads, in order: those of MEMORY_FILES that exist,
\* then the *.md files of memory/
LoadedFiles(fs) ==
  SelectSeq(MEMORY_FILES, LAMBDA f : fs[f] # NoFile)
    \o SetToSeq({f \in MemoryDirFiles : fs[f] # NoFile})

\* the files whose read throws in loadGraph
FailedFiles(fs) == {f \in AsSetOf(LoadedFiles(fs)) : fs[f] = Unreadable}

\* a slip in loadGraph: no try around the read, the first error ends the loop
LoadAll_AbortsOnError(files, fs, t) ==
  LET F[i \in 0..Len(files)] ==
        IF i = 0 THEN [graphs |-> <<KnowledgeGraph(t)>>, heap |-> <<>>]
        ELSE IF \E j \in 1..i : fs[files[j]] = Unreadable THEN F[i-1]
        ELSE buildGraph(F[i-1], 1, fs[files[i]], files[i], t)
  IN F[Len(files)]

\* buildGraph(content, filename, graph) for every file, on one new graph; a
\* file whose read throws is passed over by the catch around it
LoadAll(files, fs, t) ==
  LET F[i \in 0..Len(files)] ==
        IF i = 0 THEN [graphs |-> <<KnowledgeGraph(t)>>, heap |-> <<>>]
        ELSE IF fs[files[i]] = Unreadable THEN F[i-1]
        ELSE buildGraph(F[i-1], 1, fs[files[i]], files[i], t)
  IN F[Len(files)]

\* sourceBonus is the weight of the first source; displayWeight is that of
\* applyDecay (weight * decay factor * greatest source weight) times the
\* bonus.  The clock is read in the millisecond of the build: age 0, decay
\* factor 1
WithDisplayWeight(node) ==
  LET bonus == getSourceWeight(node.sources[1])
      decayed == node.weight * 1 * MaxOver(node.sources, getSourceWeight, 1)
  IN [sourceBonus |-> bonus, displayWeight |-> decayed * bonus] @@ node

\* a Set object, as opposed to an array
NewSet(items) == [Set |-> items]

\* the object loadGraph returns: the node objects of the store themselves,
\* whose sources is a Set; the arrays are keyed by id here
Loaded(W) ==
  [nodes |-> [id \in DOMAIN W.graphs[1].nodes |->
                [WithDisplayWeight(W.graphs[1].nodes[id]) EXCEPT !.sources = NewSet(@)]],
   edges |-> [e \in DOMAIN W.graphs[1].edges |->
                [displayWeight |-> W.heap[W.graphs[1].edges[e]].weight]
                  @@ W.heap[W.graphs[1].edges[e]]]]

\* loadGraph(); each intermediate result is computed once
loadGraph(fs, t) ==
  CHOOSE graph \in {Loaded(W) : W \in {LoadAll(files, fs, t) : files \in {LoadedFiles(fs)}}} : TRUE

\* a slip in setGraph: the spread comes last, so a version field of the
\* argument survives
setGraph_SpreadLast(current, graph, t) ==
  graph @@ [version |-> current.version + 1, lastUpdate |-> t]

\* setGraph: { ...graph, version: this.graph.version + 1, lastUpdate: now }
setGraph(current, graph, t) ==
  [version |-> current.version + 1, lastUpdate |-> t] @@ graph

\* new KnowledgeServer()
KnowledgeServer(t) ==
  [graph |-> [nodes |-> <<>>, edges |-> <<>>, version |-> 0, lastUpdate |-> t],
   calls |-> 0]

\* module.exports of watcher.js
WatcherExports == {"FileWatcher", "SOURCE_WEIGHTS"}

\* require('./watcher').KnowledgeWatcher
KnowledgeWatcher ==
  IF "KnowledgeWatcher" \in WatcherExports THEN "KnowledgeWatcher" ELSE "undefined"

\* JSON.stringify of a Set: it has no enumerable own property
EmptyObject == [json |-> "{}"]

\* the JSON text of an array
JsonArray(items) == [json |-> "[]", items |-> items]

\* JSON.stringify of a node: every field as it is, but a Set as {}
stringifyNode(node) ==
  IF "sources" \in DOMAIN node /\ DOMAIN node.sources = {"Set"}
  THEN [node EXCEPT !.sources = EmptyObject]
  ELSE node

\* what a client parses from JSON.stringify(graph)
stringify(graph) == [graph EXCEPT !.nodes = [i \in DOMAIN @ |-> stringifyNode(@[i])]]

\* ws.send / broadcast: a frame appended to what the client has received;
\* call is the setGraph call that set the graph sent
Frame(type, srv) ==
  IF type = "graph:full"
  THEN [type |-> type, graph |-> stringify(srv.graph),
        version |-> srv.graph.version, call |-> srv.calls]
  ELSE [type |-> type]

\* a slip in broadcast: the frame goes to every socket the hub knows of,
\* connected or not
broadcast_NoStateCheck(cl, frame) ==
  [c \in DOMAIN cl |-> [cl[c] EXCEPT !.received = Append(@, frame)]]

\* broadcast: to every client whose socket is open
broadcast(cl, frame) ==
  [c \in DOMAIN cl |->
     IF cl[c].readyState = "OPEN"
     THEN [cl[c] EXCEPT !.received = Append(@, frame)]
     ELSE cl[c]]

-----------------------------------------------------------------------------
(* Graph client (GraphClient) *)

\* options: the defaults of the constructor
reconnectDelay == 1000
maxReconnectDelay == 30000
autoConnect == TRUE

\* this.ws = null
NoSocket == 0

\* the urls handed to the constructor and to setUrl
Urls == {"ws://localhost:3847", "ws://hub:3847"}

\* new WebSocket(url); inbox: the frames the hub has sent and onmessage has
\* not yet been called for
WebSocket(url) == [url |-> url, readyState |-> "CONNECTING", inbox |-> <<>>]

\* ws.close(code, reason): the closing handshake starts; the close event
\* comes later
close(socket) ==
  IF socket.readyState \in {"CONNECTING", "OPEN"}
  THEN [socket EXCEPT !.readyState = "CLOSING"]
  ELSE socket

\* The operators below take and return the client's world
\* C = [gc, sockets, emits]: the GraphClient, the sockets, and the events
\* emitted so far by the running handler.
emit(C, event) == [C EXCEPT !.emits = Append(@, event)]

connect(C) ==
  IF C.gc.wsUrl = ""
  THEN C
  ELSE IF C.gc.ws # NoSocket
          /\ C.sockets[C.gc.ws].readyState \in {"CONNECTING", "OPEN"}
  THEN C
  ELSE [C EXCEPT !.sockets = Append(@, WebSocket(C.gc.wsUrl)),
                 !.gc.ws = Len(C.sockets) + 1]

disconnect(C) ==
  [C EXCEPT !.gc.reconnectTimer = 0,
            !.gc.timeouts = {tm \in @ : tm.id # C.gc.reconnectTimer},
            !.sockets = IF C.gc.ws # NoSocket
                        THEN [@ EXCEPT ![C.gc.ws] = close(@)]
                        ELSE @,
            !.gc.ws = NoSocket,
            !.gc.connected = FALSE]

setUrl(C, wsUrl) ==
  LET wasConnected == C.gc.connected
      D == [disconnect(C) EXCEPT !.gc.wsUrl = wsUrl]
  IN IF wasConnected \/ C.gc.options.autoConnect THEN connect(D) ELSE D

\* Math.min(reconnectDelay * Math.pow(1.5, attempts - 1), maxReconnectDelay),
\* in ms, rounded down
ReconnectDelayMs(attempts) ==
  Min((reconnectDelay * 3^(attempts - 1)) \div 2^(attempts - 1),
      maxReconnectDelay)

\* a slip in _scheduleReconnect: a pending timer does not end the call
scheduleReconnect_NoGuard(C) ==
  [C EXCEPT !.gc.reconnectAttempts = @ + 1,
            !.gc.timeouts = @ \cup {[id |-> C.gc.nextTimeout,
                                     delay |-> ReconnectDelayMs(C.gc.reconnectAttempts + 1)]},
            !.gc.reconnectTimer = C.gc.nextTimeout,
            !.gc.nextTimeout = @ + 1]

\* reconnectTimer: the id setTimeout returned, 0 for null; timeouts: the
\* timeouts of the event loop that are set and neither cleared nor run
scheduleReconnect(C) ==
  IF C.gc.reconnectTimer # 0
  THEN C
  ELSE [C EXCEPT !.gc.reconnectAttempts = @ + 1,
                 !.gc.timeouts = @ \cup {[id |-> C.gc.nextTimeout,
                                          delay |-> ReconnectDelayMs(C.gc.reconnectAttempts + 1)]},
                 !.gc.reconnectTimer = C.gc.nextTimeout,
                 !.gc.nextTimeout = @ + 1]

\* _setupHandlers: the handlers close over the client, not over the socket
\* they are set on
onopen(C) ==
  emit([C EXCEPT !.gc.connected = TRUE, !.gc.reconnectAttempts = 0], "connect")

onclose(C, code) ==
  LET wasConnected == C.gc.connected
      D == [C EXCEPT !.gc.connected = FALSE]
      E == IF wasConnected THEN emit(D, "disconnect") ELSE D
  IN IF code # 1000 THEN scheduleReconnect(E) ELSE E

\* the index of the first node of the list with this id, 0 if there is none
FindIndex(nodes, id) ==
  IF \E i \in 1..Len(nodes) : nodes[i].id = id
  THEN CHOOSE i \in 1..Len(nodes) :
         /\ nodes[i].id = id
         /\ \A j \in 1..(i - 1) : nodes[j].id # id
  ELSE 0

\* splice(idx, 1)
Splice(seq, idx) == SubSeq(seq, 1, idx - 1) \o SubSeq(seq, idx + 1, Len(seq))

\* msg.f is truthy: the frames here carry no empty, zero or null field
Has(msg, f) == f \in DOMAIN msg

\* _handleMessage(msg), the cases of the frames the hub sends
handleMessage(C, msg) ==
  LET nodes == C.gc.graph.nodes
      idx == IF Has(msg, "id") THEN FindIndex(nodes, msg.id) ELSE 0
  IN CASE msg.type = "graph:full" ->
            emit([C EXCEPT !.gc.graph =
                    IF Has(msg, "graph") THEN msg.graph
                    ELSE [nodes |-> <<>>, edges |-> <<>>]], "graph")
       [] msg.type = "graph:node:add" ->
            IF Has(msg, "node")
            THEN emit(emit([C EXCEPT !.gc.graph.nodes = Append(@, msg.node)],
                           "node:add"), "graph")
            ELSE C
       [] msg.type = "graph:node:update" ->
            IF Has(msg, "id") /\ Has(msg, "changes") /\ idx > 0
            THEN emit(emit([C EXCEPT !.gc.graph.nodes[idx] = msg.changes @@ @],
                           "node:update"), "graph")
            ELSE C
       [] msg.type = "graph:node:remove" ->
            IF Has(msg, "id") /\ idx > 0
            THEN emit(emit([C EXCEPT !.gc.graph.nodes = Splice(@, idx)],
                           "node:remove"), "graph")
            ELSE C
       [] msg.type = "state" ->
            LET state == IF Has(msg, "state") THEN msg.state
                         ELSE IF Has(msg, "mode") THEN msg.mode ELSE "idle"
            IN IF state # C.gc.state
               THEN emit([C EXCEPT !.gc.state = state], "state")
               ELSE C
       [] OTHER -> emit(C, "message")

\* new GraphClient(wsUrl): with autoConnect the constructor calls connect()
GraphClient(wsUrl) ==
  LET C == [gc |-> [wsUrl |-> wsUrl,
                    options |-> [reconnectDelay |-> reconnectDelay,
                                 maxReconnectDelay |-> maxReconnectDelay,
                                 autoConnect |-> autoConnect],
                    ws |-> NoSocket, connected |-> FALSE,
                    reconnectAttempts |-> 0, reconnectTimer |-> 0,
                    timeouts |-> {}, nextTimeout |-> 1,
                    graph |-> [nodes |-> <<>>, edges |-> <<>>],
                    state |-> "idle"],
            sockets |-> <<>>, emits |-> <<>>]
  IN IF C.gc.options.autoConnect /\ wsUrl # "" THEN connect(C) ELSE C

\* `graph:node:${action}`
DeltaType ==
  [add |-> "graph:node:add", update |-> "graph:node:update",
   remove |-> "graph:node:remove"]

\* sendNodeDelta(action, node): the message handed to broadcast
NodeDelta(action, node, t) ==
  [type |-> DeltaType[action], node |-> node, timestamp |-> t]

\* handleConnection: the frames the hub sends to a socket it has accepted
\* (the hub's state is as constructed; the city state is not looked at)
Greeting(srv) ==
  << [type |-> "state", mode |-> "idle", lastUpdate |-> srv.graph.lastUpdate,
      message |-> ""],
     [type |-> "graph:full", graph |-> srv.graph],
     [type |-> "city:state"] >>

\* the state of the file watcher, the hub, the start script and the client
\* at start
InitRest ==
  /\ fsys = [p \in Paths |-> NoFile]
  /\ fw = FileWatcher
  /\ emitted = <<>>
  /\ hist = [events |-> 0,
             last |-> [p \in Paths |->
                         [at |-> 0, type |-> "none", size |-> 0,
                          bursts |-> 0, runs |-> 0, aborted |-> 0]]]
  /\ server = KnowledgeServer(1)
  /\ clients = [c \in 1..NumClients |-> [readyState |-> "NONE", received |-> <<>>]]
  /\ engine = [started |-> FALSE, wired |-> FALSE, failed |-> {}]
  /\ gc = GraphClient("ws://localhost:3847").gc
  /\ sockets = GraphClient("ws://localhost:3847").sockets

-----------------------------------------------------------------------------
(* City projector (scripts/knowledge-to-city.js): files and entities *)

VALID_TICKERS == {
  <<"L","U","N","R">>, <<"R","D","W">>, <<"R","K","L","B">>,
  <<"A","S","T","S">>, <<"U","E","C">>, <<"C","C","J">>, <<"S","M","R">>,
  <<"O","K","L","O">>, <<"I","O","N","Q">>, <<"R","G","T","I">>,
  <<"Q","U","B","T">>, <<"S","O","F","I">>, <<"H","O","O","D">>,
  <<"A","M","P","X">>, <<"C","T","M","X">>, <<"S","P","Y">>, <<"Q","Q","Q">>,
  <<"N","V","D","A">>, <<"T","S","L","A">>, <<"A","A","P","L">>,
  <<"M","S","F","T">>, <<"G","O","O","G","L">>, <<"A","M","Z","N">>
}
TICKER_EXCLUSIONS == {
  <<"T","H","E">>, <<"A","N","D">>, <<"F","O","R">>, <<"N","O","T">>,
  <<"B","U","T">>, <<"Y","O","U">>, <<"A","L","L">>, <<"C","A","N">>,
  <<"H","E","R">>, <<"W","A","S">>, <<"O","N","E">>, <<"O","U","R">>,
  <<"O","U","T">>, <<"A","R","E">>, <<"H","A","S">>, <<"H","I","S">>,
  <<"H","O","W">>, <<"I","T","S">>, <<"M","A","Y">>, <<"N","E","W">>,
  <<"N","O","W">>, <<"O","L","D">>, <<"S","E","E">>, <<"W","A","Y">>,
  <<"W","H","O">>, <<"B","O","Y">>, <<"D","I","D">>, <<"G","E","T">>,
  <<"H","I","M">>, <<"L","E","T">>, <<"P","U","T">>, <<"S","A","Y">>,
  <<"S","H","E">>, <<"T","O","O">>, <<"U","S","E">>, <<"D","A","Y">>,
  <<"H","A","D">>, <<"M","A","N">>, <<"A","P","I">>, <<"U","R","L">>,
  <<"P","S","T">>, <<"U","T","C">>, <<"A","M">>, <<"P","M">>, <<"O","K">>,
  <<"I","D">>, <<"U","I">>, <<"W","S">>, <<"M","D">>, <<"J","S">>,
  <<"C","L","I">>, <<"T","T","S">>, <<"N","L","P">>, <<"G","P","U">>,
  <<"C","P","U">>, <<"R","A","M">>, <<"S","S","D">>, <<"U","S","B">>,
  <<"S","S","H">>, <<"F","P","S">>, <<"H","U","D">>, <<"R","G","B">>,
  <<"H","S","L">>, <<"C","S","S">>, <<"H","T","M","L">>, <<"J","S","O","N">>,
  <<"Y","A","M","L">>, <<"C","O","R","S">>, <<"R","E","S","T">>,
  <<"C","R","U","D">>
}

\* the names of toolsRegex that are written with letters only, lower case
CityTools == {
  <<"d","o","c","k","e","r">>, <<"t","a","i","l","s","c","a","l","e">>,
  <<"c","o","o","l","i","f","y">>, <<"c","l","o","u","d","f","l","a","r","e">>,
  <<"t","e","l","e","g","r","a","m">>, <<"d","i","s","c","o","r","d">>,
  <<"g","i","t","h","u","b">>, <<"w","e","b","s","o","c","k","e","t">>,
  <<"p","y","t","h","o","n">>, <<"e","l","e","c","t","r","o","n">>,
  <<"v","e","r","c","e","l">>
}

\* Object.keys(DISTRICTS): the districts in declaration order
DistrictNames == <<"trading", "infrastructure", "projects", "memory", "core">>

\* DISTRICTS[district].keywords
keywords ==
  [trading |-> <<
     <<"s","t","o","c","k">>, <<"t","r","a","d","i","n","g">>, <<"m","a","r","k","e","t">>,
     <<"o","p","t","i","o","n","s">>, <<"s","c","a","n","n","e","r">>,
     <<"a","s","y","m","m","e","t","r","y">>, <<"t","i","c","k","e","r">>, <<"l","u","n","r">>,
     <<"r","d","w">>, <<"r","k","l","b">>, <<"a","s","t","s">>, <<"u","e","c">>,
     <<"c","c","j">>, <<"s","m","r">>, <<"o","k","l","o">>, <<"i","o","n","q">>,
     <<"r","g","t","i">>, <<"q","u","b","t">>, <<"s","o","f","i">>, <<"h","o","o","d">>,
     <<"a","m","p","x">>, <<"c","t","m","x">>, <<"p","r","i","c","e">>,
     <<"p","o","r","t","f","o","l","i","o">>, <<"h","o","l","d","i","n","g","s">>,
     <<"b","u","l","l","i","s","h">>, <<"b","e","a","r","i","s","h">>,
     <<"m","o","m","e","n","t","u","m">>, <<"b","r","e","a","k","o","u","t">>,
     <<"s","q","u","e","e","z","e">>, <<"b","o","u","n","c","e">> >>,
   infrastructure |-> <<
     <<"s","e","r","v","e","r">>, <<"d","e","p","l","o","y">>, <<"d","o","c","k","e","r">>,
     <<"t","a","i","l","s","c","a","l","e">>, <<"c","o","o","l","i","f","y">>, <<"p","m","2">>,
     <<"c","l","o","u","d","f","l","a","r","e">>, <<"t","u","n","n","e","l">>,
     <<"w","e","b","s","o","c","k","e","t">>, <<"a","p","i">>, <<"n","g","i","n","x">>,
     <<"l","i","n","u","x">>, <<"s","s","h">>, <<"p","o","r","t">>,
     <<"d","a","e","m","o","n">>, <<"s","y","s","t","e","m","d">>, <<"c","r","o","n">>,
     <<"n","o","d","e">>, <<"p","y","t","h","o","n">>, <<"b","a","s","h">>, <<"g","i","t">>,
     <<"g","i","t","h","u","b">> >>,
   projects |-> <<
     <<"p","r","o","j","e","c","t">>, <<"b","u","i","l","d">>, <<"c","r","e","a","t","e">>,
     <<"a","p","p">>, <<"v","i","s","u","a","l","i","z","a","t","i","o","n">>,
     <<"f","a","c","e">>, <<"m","i","n","d">>, <<"e","l","e","c","t","r","o","n">>,
     <<"r","e","n","d","e","r","e","r">>, <<"c","a","n","v","a","s">>, <<"t","h","r","e","e">>,
     <<"w","e","b","g","l">>, <<"a","n","i","m","a","t","i","o","n">>,
     <<"l","a","n","d","i","n","g">>, <<"p","a","g","e">>, <<"w","h","o","p">>,
     <<"t","e","l","e","g","r","a","m">>, <<"b","o","t">>, <<"s","k","i","l","l">>,
     <<"r","o","u","t","e","r">> >>,
   memory |-> <<
     <<"m","e","m","o","r","y">>, <<"r","e","m","e","m","b","e","r">>,
     <<"d","e","c","i","s","i","o","n">>, <<"l","e","a","r","n","e","d">>,
     <<"p","r","e","f","e","r","e","n","c","e">>, <<"s","o","u","l">>,
     <<"i","d","e","n","t","i","t","y">>, <<"a","n","t","o","n">>, <<"u","s","e","r">>,
     <<"h","u","m","a","n">>, <<"s","e","s","s","i","o","n">>,
     <<"h","e","a","r","t","b","e","a","t">>, <<"b","r","i","e","f","i","n","g">>,
     <<"s","u","m","m","a","r","y">>, <<"n","o","t","e">>, <<"l","o","g">>,
     <<"j","o","u","r","n","a","l">> >>,
   core |-> <<
     <<"s","e","l","f">>, <<"a","b","s","a","l","o","m">>, <<"c","o","r","e">>,
     <<"a","g","e","n","t">>, <<"a","s","s","i","s","t","a","n","t">>, <<"a","i">>,
     <<"c","l","a","u","d","e">>, <<"k","n","o","w","l","e","d","g","e">>,
     <<"g","r","a","p","h">>, <<"e","n","g","i","n","e">>, <<"s","y","s","t","e","m">> >>]

\* lower.includes(keyword)
includes(lower, keyword) ==
  \E i \in 1..(Len(lower) - Len(keyword) + 1) :
    SubSeq(lower, i, i + Len(keyword) - 1) = keyword

\* the score of a district: the keywords of its list that the text contains
score(lower, district) ==
  Cardinality({i \in 1..Len(keywords[district]) : includes(lower, keywords[district][i])})

\* classifyToDistrict(text)
classifyToDistrict(text) ==
  LET lower == ToLowerCase(text)
      F[i \in 0..Len(DistrictNames)] ==
        IF i = 0 THEN [bestDistrict |-> "memory", bestScore |-> 0]
        ELSE IF score(lower, DistrictNames[i]) > F[i-1].bestScore
             THEN [bestDistrict |-> DistrictNames[i],
                   bestScore |-> score(lower, DistrictNames[i])]
             ELSE F[i-1]
  IN F[Len(DistrictNames)].bestDistrict

\* header.toLowerCase().replace(/[^a-z0-9]+/g, '-')
Slug(header) ==
  LET lower == ToLowerCase(header)
      F[i \in 0..Len(lower)] ==
        IF i = 0 THEN <<>>
        ELSE IF IsLower(lower[i]) THEN Append(F[i-1], lower[i])
             ELSE IF i > 1 /\ ~IsLower(lower[i-1]) THEN F[i-1]
                  ELSE Append(F[i-1], "-")
  IN F[Len(lower)]

mainFiles == <<"MEMORY.md", "SOUL.md", "USER.md", "AGENTS.md", "TOOLS.md">>

\* Math.max(0.5, 2 - dayAge * 0.2) in tenths, the age in days
recencyWeight(dayAge) == Max(5, 20 - 2 * dayAge)

\* the entry readMemoryFiles pushes for a file
FileEntry(file, t) ==
  [name |-> file.name, content |-> file.content, mtime |-> file.mtime,
   weight |-> IF file.name \in AsSetOf(mainFiles)
              THEN (IF file.name = "MEMORY.md" THEN 30
                    ELSE IF file.name = "SOUL.md" THEN 50 ELSE 10)
              ELSE recencyWeight(t - file.mtime)]

\* readMemoryFiles() at time t on a workspace, a set of files: the main
\* files that exist, then the files of memory/
readMemoryFiles(workspace, t) ==
  LET named(n) == CHOOSE f \in workspace : f.name = n
      main == SelectSeq(mainFiles, LAMBDA n : \E f \in workspace : f.name = n)
      dir == SetToSeq({n \in MemoryDirFiles : \E f \in workspace : f.name = n})
  IN [i \in 1..(Len(main) + Len(dir)) |->
        FileEntry(named((main \o dir)[i]), t)]

\* the occurrences extractEntities finds in one content, in the order in
\* which it adds them: tickers, then header topics, then tools; factor is
\* the multiple of the file weight an occurrence adds.  A header of the
\* contents is one word, so that the tool pattern reads it as a whole
Occurrences_City(content) ==
  Map(SelectSeq(UpperRuns(content),
                LAMBDA t : \/ t \in VALID_TICKERS
                           \/ t \notin TICKER_EXCLUSIONS
                                /\ t \in AsSetOf(TextsOf(content, {"cashtag"}))),
      LAMBDA t : [id |-> TypeName["ticker"] \o <<":">> \o t, type |-> "ticker",
                  label |-> t, district |-> "trading", factor |-> 1])
  \o
  Map(SelectSeq(Map(TextsOf(content, {"header"}), Trim),
                LAMBDA h : Len(h) > 2 /\ Len(h) < 50),
      LAMBDA h : [id |-> TypeName["topic"] \o <<":">> \o Slug(h), type |-> "topic",
                  label |-> h, district |-> classifyToDistrict(h), factor |-> 2])
  \o
  Map(SelectSeq(TextsOf(content, {"word", "header"}),
                LAMBDA t : ToLowerCase(t) \in CityTools),
      LAMBDA t : [id |-> TypeName["tool"] \o <<":">> \o ToLowerCase(t), type |-> "tool",
                  label |-> t, district |-> "infrastructure", factor |-> 1])

\* entities.get(id) updated for one occurrence in a file
AddOccurrence(entities, occ, file) ==
  IF \E i \in 1..Len(entities) : entities[i].id = occ.id
  THEN [i \in 1..Len(entities) |->
          IF entities[i].id = occ.id
          THEN [entities[i] EXCEPT !.mentions = @ + file.weight * occ.factor,
                                   !.sources = SetAdd(@, file.name)]
          ELSE entities[i]]
  ELSE Append(entities, [id |-> occ.id, type |-> occ.type, label |-> occ.label,
                         mentions |-> file.weight * occ.factor,
                         sources |-> <<file.name>>,
                         district |-> occ.district])

\* all occurrences of all files, each with its file
AllOccurrences(files) ==
  LET F[i \in 0..Len(files)] ==
        IF i = 0 THEN <<>>
        ELSE F[i-1] \o Map(Occurrences_City(files[i].content),
                           LAMBDA occ : [occ |-> occ, file |-> files[i]])
  IN F[Len(files)]

\* extractEntities(files) of the city script: the Map, in insertion order
extractCityEntities(files) ==
  LET all == AllOccurrences(files)
      F[i \in 0..Len(all)] ==
        IF i = 0 THEN <<>>
        ELSE AddOccurrence(F[i-1], all[i].occ, all[i].file)
  IN F[Len(all)]

-----------------------------------------------------------------------------
(* City projector (scripts/knowledge-to-city.js): layout *)

\* the centres of the districts
\* a slip in DISTRICTS: the centres lie three times as far from the origin
DISTRICTS_Wide ==
  [trading |-> [position |-> [x |-> 75, z |-> 30]],
   infrastructure |-> [position |-> [x |-> -60, z |-> 45]],
   projects |-> [position |-> [x |-> 30, z |-> -75]],
   memory |-> [position |-> [x |-> -45, z |-> -60]],
   core |-> [position |-> [x |-> 0, z |-> 0]]]

DISTRICTS ==
  [trading |-> [position |-> [x |-> 25, z |-> 10]],
   infrastructure |-> [position |-> [x |-> -20, z |-> 15]],
   projects |-> [position |-> [x |-> 10, z |-> -25]],
   memory |-> [position |-> [x |-> -15, z |-> -20]],
   core |-> [position |-> [x |-> 0, z |-> 0]]]

\* sorted.slice(0, 100)
TopEntities == 100

(***************************************************************************)
(* The spiral is computed in fixed point.  Angles are millionths of a     *)
(* turn, cosines and sines ten-thousandths, lengths thousandths; x, z and  *)
(* mention counts are tenths.  The positions agree with those of the       *)
(* floating point computation to within one tenth.                         *)
(***************************************************************************)
\* index * 0.618033988749895 turns, modulo whole turns
GoldenAngle(index) == (index * 618034) % 1000000

\* an angle of at most an eighth of a turn, in ten-thousandths of a radian
Radians(r) == ((r \div 10) * 62832) \div 100000

CosSmall(r) ==
  LET x == Radians(r)
      x2 == (x * x) \div 10000
      x4 == (x2 * x2) \div 10000
      x6 == (x4 * x2) \div 10000
  IN 10000 - x2 \div 2 + x4 \div 24 - x6 \div 720

SinSmall(r) ==
  LET x == Radians(r)
      x2 == (x * x) \div 10000
      x3 == (x2 * x) \div 10000
      x5 == (x3 * x2) \div 10000
      x7 == (x5 * x2) \div 10000
  IN x - x3 \div 6 + x5 \div 120 - x7 \div 5040

\* Math.cos and Math.sin of an angle given in millionths of a turn
CosSin(f) ==
  LET q == f \div 250000
      r == f % 250000
      c == IF r <= 125000 THEN CosSmall(r) ELSE SinSmall(250000 - r)
      s == IF r <= 125000 THEN SinSmall(r) ELSE CosSmall(250000 - r)
  IN CASE q = 0 -> [cos |-> c, sin |-> s]
       [] q = 1 -> [cos |-> -s, sin |-> c]
       [] q = 2 -> [cos |-> -c, sin |-> -s]
       [] OTHER -> [cos |-> s, sin |-> -c]

\* the next decimal digit of a square root: r is the root of n \div 100
SqrtDigit(n, r) ==
  CHOOSE d \in (10 * r)..(10 * r + 9) : d * d <= n /\ (d + 1) * (d + 1) > n

\* Math.sqrt(n) in thousandths, n a building's index within its district
Sqrt(n) ==
  LET a == CHOOSE a \in 0..TopEntities : a * a <= n /\ (a + 1) * (a + 1) > n
  IN SqrtDigit(n * 1000000, SqrtDigit(n * 10000, SqrtDigit(n * 100, a)))

\* Math.round(v * 10) / 10 in tenths, v given in ten-millionths
RoundTenths(v) == (v + 500000) \div 1000000

\* 3 + Math.sqrt(index) * 3, in thousandths
SpiralRadius(index) == 3000 + 3 * Sqrt(index)

\* the position of the index-th building of a district, in tenths
SpiralPosition(district, index) ==
  LET cs == CosSin(GoldenAngle(index))
      radius == SpiralRadius(index)
      centre == DISTRICTS[district].position
  IN [x |-> RoundTenths(centre.x * 10000000 + cs.cos * radius),
      z |-> RoundTenths(centre.z * 10000000 + cs.sin * radius)]

\* 5 + Math.log2(mentions + 1) * 5, rounded to tenths: kept as the argument
\* of the logarithm, mentions in tenths
Height(mentions) == [log2 |-> mentions + 10]

typeWidths == [ticker |-> 20, tool |-> 30, project |-> 40, topic |-> 30, concept |-> 25]

\* [...].sort((a, b) => b.mentions - a.mentions): stable, greatest first
SortByMentions(list) ==
  CHOOSE sorted \in
    {[p \in 1..Len(list) |-> list[CHOOSE i \in 1..Len(list) : rank[i] = p]]
       : rank \in {[i \in 1..Len(list) |->
                     Cardinality({j \in 1..Len(list) :
                                    \/ list[j].mentions > list[i].mentions
                                    \/ list[j].mentions = list[i].mentions /\ j <= i})]}}
    : TRUE

\* generateBuildings(entities), entities in the order of the Map
generateBuildings(entities) ==
  CHOOSE buildings \in
    {[i \in 1..Len(top) |->
        LET entity == top[i]
            index == Cardinality({j \in 1..i : top[j].district = entity.district})
            at == SpiralPosition(entity.district, index)
        IN [id |-> entity.id, type |-> entity.type, label |-> entity.label,
            district |-> entity.district, x |-> at.x, z |-> at.z,
            height |-> Height(entity.mentions),
            width |-> IF entity.type \in DOMAIN typeWidths
                      THEN typeWidths[entity.type] ELSE 25,
            mentions |-> entity.mentions, sources |-> entity.sources]]
       : top \in {SubSeq(sorted, 1, Min(Len(sorted), TopEntities))
                    : sorted \in {SortByMentions(entities)}}} : TRUE

\* the sources of the buildings, in the order in which fileConnections
\* first meets them
ConnectionSources(buildings) ==
  LET F[i \in 0..Len(buildings)] ==
        IF i = 0 THEN <<>> ELSE Dedupe(F[i-1] \o buildings[i].sources)
  IN F[Len(buildings)]

\* the connections of one source file: the pairs among its first five
\* buildings that no earlier pair has connected
FileConnections(connections, ids) ==
  LET n == Min(Len(ids), 5)
      pairs == IndexPairs(n)
      F[m \in 0..Len(pairs)] ==
        IF m = 0 THEN connections
        ELSE LET a == ids[pairs[m][1]]
                 b == ids[pairs[m][2]]
             IN IF \E c \in AsSetOf(F[m-1]) : EdgeId(c.from, c.to) = EdgeId(a, b)
                THEN F[m-1]
                ELSE Append(F[m-1], [from |-> a, to |-> b, strength |-> 5])
  IN F[Len(pairs)]

\* generateConnections(buildings, files); strengths in tenths
generateConnections(buildings) ==
  LET sources == ConnectionSources(buildings)
      idsOf(source) ==
        Map(SelectSeq(buildings, LAMBDA b : source \in AsSetOf(b.sources)),
            LAMBDA b : b.id)
      F[i \in 0..Len(sources)] ==
        IF i = 0 THEN <<>> ELSE FileConnections(F[i-1], idsOf(sources[i]))
      first(district) ==
        buildings[CHOOSE i \in 1..Len(buildings) :
                    /\ buildings[i].district = district
                    /\ \A j \in 1..(i-1) : buildings[j].district # district]
      districts == Dedupe(Map(buildings, LAMBDA b : b.district))
      others == SelectSeq(districts, LAMBDA d : d # "core")
  IN IF \E b \in AsSetOf(buildings) : b.district = "core"
     THEN F[Len(sources)]
            \o Map(others, LAMBDA d : [from |-> first("core").id, to |-> first(d).id,
                                       strength |-> 10])
     ELSE F[Len(sources)]

\* files.sort((a, b) => b.mtime - a.mtime): stable, latest first
SortByMtime(files) ==
  CHOOSE sorted \in
    {[p \in 1..Len(files) |-> files[CHOOSE i \in 1..Len(files) : rank[i] = p]]
       : rank \in {[i \in 1..Len(files) |->
                     Cardinality({j \in 1..Len(files) :
                                    \/ files[j].mtime > files[i].mtime
                                    \/ files[j].mtime = files[i].mtime /\ j <= i})]}}
    : TRUE

\* file.content.toLowerCase().includes(keyword).  A keyword has neither
\* white space nor markup, so a content contains it exactly when the text
\* of one of its tokens does
contentIncludes(content, keyword) ==
  \E i \in 1..Len(content) : includes(ToLowerCase(content[i].text), keyword)

\* what the files add to the score of a district, in hundredths:
\* 0.1 * file.weight for every keyword of the district a file contains
Activity(recent, district) ==
  LET F[i \in 0..Len(recent)] ==
        IF i = 0 THEN 0
        ELSE F[i-1]
             + recent[i].weight
               * Cardinality({k \in 1..Len(keywords[district]) :
                                contentIncludes(recent[i].content, keywords[district][k])})
  IN F[Len(recent)]

\* Math.max(...values)
MathMax(values) == CHOOSE m \in values : \A v \in values : m >= v

\* the district with the greatest activity, the first such in the order of
\* the keys; activities share their denominator
MostActive(districtActivity) ==
  LET F[i \in 0..Len(DistrictNames)] ==
        IF i = 0 THEN [activeDistrict |-> "core", maxScore |-> 0]
        ELSE IF districtActivity[DistrictNames[i]].num > F[i-1].maxScore
             THEN [activeDistrict |-> DistrictNames[i],
                   maxScore |-> districtActivity[DistrictNames[i]].num]
             ELSE F[i-1]
  IN F[Len(DistrictNames)].activeDistrict

\* a slip in analyzeActiveDistrict: the scores are not divided by their
\* maximum
analyzeActiveDistrict_Raw(files) ==
  CHOOSE result \in
    {[activeDistrict |-> MostActive(activity), districtActivity |-> activity]
       : activity \in
           {[d \in AsSetOf(DistrictNames) |-> [num |-> Min(scores[d], 100), den |-> 100]]
              : scores \in
                  {[d \in AsSetOf(DistrictNames) |-> 30 + Activity(recent, d)]
                     : recent \in {SubSeq(sorted, 1, Min(3, Len(sorted)))
                                     : sorted \in {SortByMtime(files)}}}}}
    : TRUE

\* analyzeActiveDistrict(files).  Scores are hundredths; an activity is the
\* fraction num / den, Math.min(1, score / max)
analyzeActiveDistrict(files) ==
  CHOOSE result \in
    {[activeDistrict |-> MostActive(activity), districtActivity |-> activity]
       : activity \in
           {[d \in AsSetOf(DistrictNames) |->
               [num |-> Min(scores[d], MathMax(Range(scores))),
                den |-> MathMax(Range(scores))]]
              : scores \in
                  {[d \in AsSetOf(DistrictNames) |-> 30 + Activity(recent, d)]
                     : recent \in {SubSeq(sorted, 1, Min(3, Len(sorted)))
                                     : sorted \in {SortByMtime(files)}}}}}
    : TRUE

\* the buildings and connections main() writes when run at time t
project(workspace, t) ==
  CHOOSE city \in
    {[buildings |-> buildings, connections |-> generateConnections(buildings)]
       : buildings \in {generateBuildings(extractCityEntities(readMemoryFiles(workspace, t)))}}
    : TRUE

Docker == <<"D", "o", "c", "k", "e", "r">>
Portfolio == <<"P", "o", "r", "t", "f", "o", "l", "i", "o">>
Agent == <<"A", "g", "e", "n", "t">>

\* the files a workspace is made of; modification times are in days
CityFiles ==
  { [name |-> "SOUL.md", mtime |-> 0,
     content |-> << Tok("word", NVDA, "start"), Tok("word", review, "space") >>],
    [name |-> "MEMORY.md", mtime |-> 0,
     content |-> << Tok("word", NVDA, "start"), Tok("word", Docker, "space"),
                    Tok("word", review, "space") >>],
    [name |-> "TOOLS.md", mtime |-> 1,
     content |-> << Tok("word", Docker, "start"), Tok("word", THE, "space") >>],
    [name |-> "USER.md", mtime |-> 0,
     content |-> << Tok("header", Portfolio, "start"), Tok("header", Agent, "nl") >>],
    [name |-> "memory/2026-01-15.md", mtime |-> 0,
     content |-> << Tok("cashtag", PLAN, "start"), Tok("word", PLAN, "space"),
                    Tok("word", PLAN, "space") >>] }

Workspaces == SUBSET CityFiles

\* the i-th of the two-letter labels AA, AB, ...
Label(i) == <<CharOrder[Code["A"] + (i \div 26)], CharOrder[Code["A"] + (i % 26)]>>

\* n entities of one district, as extractEntities leaves them in its Map;
\* mentions of 1, 2 and 3, in tenths
Block(district, n) ==
  [i \in 1..n |->
     [id |-> <<district, Label(i)>>, type |-> IF district = "trading" THEN "ticker" ELSE "topic",
      label |-> Label(i), mentions |-> 10 * (1 + (i % 3)),
      sources |-> <<"MEMORY.md">>, district |-> district]]

\* the arguments of generateBuildings: up to MaxEntities entities of a
\* district, with or without two entities of the core
EntityMaps ==
  {Block(d, n) \o Block("core", m)
     : d \in AsSetOf(DistrictNames) \ {"core"}, n \in {1, 2, 3, TopEntities, MaxEntities}, m \in {0, 2}}

-----------------------------------------------------------------------------
(* Graph store: state machine *)

\* the edge objects a map of references denotes
Deref(edges, h) == [e \in DOMAIN edges |-> h[edges[e]]]

\* json: the returned object; of: the graph it was taken of, 0 once that
\* graph object is no longer held
NoSnapshot == [json |-> [nodes |-> <<>>, edges |-> <<>>, lastUpdated |-> 0,
                         nodeCount |-> 0, edgeCount |-> 0],
               of |-> 0]

\* slot k receives a new graph object
Replaced(k) == IF snapshot.of = k THEN [snapshot EXCEPT !.of = 0] ELSE snapshot
NoOp == [op |-> "none"]

World == [graphs |-> graphs, heap |-> heap]

InitStore ==
  /\ now = 1
  /\ graphs = [k \in 1..NumGraphs |-> KnowledgeGraph(1)]
  /\ heap = <<>>
  /\ snapshot = NoSnapshot
  /\ lastOp = NoOp
  /\ steps = 0
  /\ InitRest

Tick ==
  /\ now < MaxTime
  /\ now' = now + 1
  /\ UNCHANGED <<graphs, heap, snapshot, lastOp, steps>>
  /\ UNCHANGED <<watcherVars, serverVars>>

BuildGraph(k, markdown, source) ==
  /\ steps < MaxSteps
  /\ LET W == buildGraph(World, k, markdown, source, now)
     IN graphs' = W.graphs /\ heap' = W.heap
  /\ lastOp' = [op |-> "buildGraph", k |-> k, markdown |-> markdown, source |-> source]
  /\ steps' = steps + 1
  /\ UNCHANGED <<now, snapshot>>
  /\ UNCHANGED <<watcherVars, serverVars>>

BuildGraphFromFiles(k, files) ==
  /\ steps < MaxSteps
  /\ LET W == buildGraphFromFiles(World, k, files, now)
     IN graphs' = W.graphs /\ heap' = W.heap
  /\ lastOp' = [op |-> "buildGraphFromFiles", k |-> k, files |-> files]
  /\ steps' = steps + 1
  /\ snapshot' = Replaced(k)
  /\ UNCHANGED now
  /\ UNCHANGED <<watcherVars, serverVars>>

MergeGraphs(k1, k2, kd) ==
  /\ steps < MaxSteps
  /\ LET R == mergeGraphs(World, k1, k2, now)
     IN /\ graphs' = [R.W.graphs EXCEPT ![kd] = R.merged]
        /\ heap' = R.W.heap
  /\ lastOp' = [op |-> "mergeGraphs", k1 |-> k1, k2 |-> k2, k |-> kd]
  /\ steps' = steps + 1
  /\ snapshot' = Replaced(kd)
  /\ UNCHANGED now
  /\ UNCHANGED <<watcherVars, serverVars>>

AddNode(k, item, source) ==
  /\ steps < MaxSteps
  /\ graphs' = [graphs EXCEPT ![k] = addNode(@, item.id, item.label, item.type, source, now)]
  /\ lastOp' = [op |-> "addNode", k |-> k, id |-> item.id, source |-> source]
  /\ steps' = steps + 1
  /\ UNCHANGED <<now, heap, snapshot>>
  /\ UNCHANGED <<watcherVars, serverVars>>

AddEdge(k, sourceId, targetId) ==
  /\ steps < MaxSteps
  /\ LET W == addEdge(World, k, sourceId, targetId, now)
     IN graphs' = W.graphs /\ heap' = W.heap
  /\ lastOp' = [op |-> "addEdge", k |-> k, sourceId |-> sourceId, targetId |-> targetId]
  /\ steps' = steps + 1
  /\ UNCHANGED <<now, snapshot>>
  /\ UNCHANGED <<watcherVars, serverVars>>

ToJSON(k) ==
  /\ snapshot = NoSnapshot
  /\ snapshot' = [json |-> toJSON(graphs[k]), of |-> k]
  /\ lastOp' = [op |-> "toJSON", k |-> k]
  /\ UNCHANGED <<now, graphs, heap, steps>>
  /\ UNCHANGED <<watcherVars, serverVars>>

vars == <<now, graphs, heap, snapshot, lastOp, steps,
          fsys, fw, emitted, hist, server, clients, engine, gc, sockets>>

NextBuild ==
  \/ Tick
  \/ \E k \in 1..NumGraphs, f \in Files : BuildGraph(k, f.markdown, f.source)
  \/ \E k \in 1..NumGraphs, files \in FileLists : BuildGraphFromFiles(k, files)
  \/ \E k1, k2, kd \in 1..NumGraphs : MergeGraphs(k1, k2, kd)
  \/ \E k \in 1..NumGraphs : ToJSON(k)

NextStore ==
  \/ NextBuild
  \/ \E k \in 1..NumGraphs, item \in DirectItems : AddNode(k, item, "MEMORY.md")
  \/ \E k \in 1..NumGraphs, a, b \in DirectIds : AddEdge(k, a, b)

SpecBuild == InitStore /\ [][NextBuild]_vars
SpecStore == InitStore /\ [][NextStore]_vars

\* addNode and addEdge called directly on the graphs
NextDirect ==
  \/ Tick
  \/ \E k \in 1..NumGraphs, item \in DirectItems : AddNode(k, item, "MEMORY.md")
  \/ \E k \in 1..NumGraphs, a, b \in DirectIds : AddEdge(k, a, b)

SpecDirect == InitStore /\ [][NextDirect]_vars

\* restored.fromJSON(graph.toJSON()), restored being the graph of slot k2
FromJSON(k1, k2) ==
  /\ steps < MaxSteps
  /\ graphs' = [graphs EXCEPT ![k2] = fromJSON(toJSON(graphs[k1]), now)]
  /\ lastOp' = [op |-> "fromJSON", k1 |-> k1, k |-> k2]
  /\ steps' = steps + 1
  /\ UNCHANGED <<now, heap, snapshot>>
  /\ UNCHANGED <<watcherVars, serverVars>>

\* graphs built from the files of a workspace, serialized and restored
NextRestore ==
  \/ Tick
  \/ \E k \in 1..NumGraphs, f \in WorkspaceFiles : BuildGraph(k, f.markdown, f.source)
  \/ \E k1, k2 \in 1..NumGraphs : FromJSON(k1, k2)

SpecRestore == InitStore /\ [][NextRestore]_vars

\* the values of now handed to applyDecayToGraph, in days
EvalTimes == {0, 1, 8, 15, 31, 61}

\* applyDecayToGraph(graph.toJSON(), t)
ApplyDecayToGraph(k, t) ==
  /\ steps < MaxSteps
  /\ lastOp' = [op |-> "applyDecayToGraph", k |-> k, at |-> t,
                result |-> applyDecayToGraph(
                             [nodes |-> getNodes(graphs[k]),
                              edges |-> Deref(getEdges(graphs[k]), heap)], t)]
  /\ steps' = steps + 1
  /\ UNCHANGED <<now, graphs, heap, snapshot>>
  /\ UNCHANGED <<watcherVars, serverVars>>

\* graphs built from the files of a workspace and decayed at several times
NextDecay ==
  \/ Tick
  \/ \E f \in WorkspaceFiles : BuildGraph(1, f.markdown, f.source)
  \/ \E t \in EvalTimes : ApplyDecayToGraph(1, t)

SpecDecay == InitStore /\ [][NextDecay]_vars

\* the nodes handed to groupByDecay: display weights below, at and above
\* both thresholds, in tenths; mention counts are whole numbers
DecayedNodes ==
  {[id |-> NodeId("tool", Git), weight |-> 10, displayWeight |-> <<d>>]
     : d \in {2, 3, 5, 7, 8, 30}}
  \cup {[id |-> NodeId("ticker", NVDA), weight |-> 20, displayWeight |-> <<>>]}

NodeLists ==
  {<<>>} \cup {<<n>> : n \in DecayedNodes}
         \cup {<<n, m>> : n \in DecayedNodes, m \in DecayedNodes}

GroupByDecay(nodes) ==
  /\ steps < MaxSteps
  /\ lastOp' = [op |-> "groupByDecay", nodes |-> nodes, groups |-> groupByDecay(nodes)]
  /\ steps' = steps + 1
  /\ UNCHANGED <<now, graphs, heap, snapshot>>
  /\ UNCHANGED <<watcherVars, serverVars>>

NextGroups == \E nodes \in NodeLists : GroupByDecay(nodes)

SpecGroups == InitStore /\ [][NextGroups]_vars

ExtractEntities(markdown) ==
  /\ steps < MaxSteps
  /\ lastOp' = [op |-> "extractEntities", markdown |-> markdown,
                entities |-> extractEntities(markdown)]
  /\ steps' = steps + 1
  /\ UNCHANGED <<now, graphs, heap, snapshot>>
  /\ UNCHANGED <<watcherVars, serverVars>>

NextExtract == \E markdown \in ExtractDocs : ExtractEntities(markdown)

SpecExtract == InitStore /\ [][NextExtract]_vars

GenerateBuildings(entities) ==
  /\ steps < MaxSteps
  /\ lastOp' = [op |-> "generateBuildings", count |-> Len(entities),
                buildings |-> generateBuildings(entities)]
  /\ steps' = steps + 1
  /\ UNCHANGED <<now, graphs, heap, snapshot>>
  /\ UNCHANGED <<watcherVars, serverVars>>

NextLayout == \E entities \in EntityMaps : GenerateBuildings(entities)

SpecLayout == InitStore /\ [][NextLayout]_vars

\* main() of the city script, run on a workspace at the present time
Main(workspace) ==
  /\ steps < MaxSteps
  /\ \E city \in {project(workspace, now)},
        activity \in {analyzeActiveDistrict(readMemoryFiles(workspace, now))} :
       lastOp' = [op |-> "main", workspace |-> workspace, at |-> now,
                  activeDistrict |-> activity.activeDistrict,
                  districtActivity |-> activity.districtActivity,
                  buildings |-> city.buildings, connections |-> city.connections]
  /\ steps' = steps + 1
  /\ UNCHANGED <<now, graphs, heap, snapshot>>
  /\ UNCHANGED <<watcherVars, serverVars>>

NextCity ==
  \/ Tick
  \/ \E workspace \in Workspaces : Main(workspace)

SpecCity == InitStore /\ [][NextCity]_vars

\* builds from the files of a workspace, in every order
NextFiles ==
  \/ Tick
  \/ \E files \in Orderings : BuildGraphFromFiles(1, files)

SpecFiles == InitStore /\ [][NextFiles]_vars

-----------------------------------------------------------------------------
(* File watcher: state machine *)

\* the timers phase of the event loop runs before file system events are
\* delivered: nothing else happens while a timeout is due
NoTimerDue == \A tm \in fw.timers : tm.due > now

\* chokidar delivers an event for a watched path to the handlers of start()
Watching(filepath) == fw.watcher /\ filepath \in getWatchPaths

\* the record of the events delivered: an event opens a burst on its path
\* unless it arrives less than debounceMs after the previous one
Delivered(filepath, eventType) ==
  LET h == hist.last[filepath]
      opens == h.type = "none" \/ now - h.at >= DEBOUNCE_MS
  IN [hist EXCEPT
        !.events = @ + 1,
        !.last[filepath] =
          [h EXCEPT !.at = now, !.type = eventType,
                    !.size = IF opens THEN 1 ELSE @ + 1,
                    !.bursts = IF opens THEN @ + 1 ELSE @]]

Undelivered == [hist EXCEPT !.events = @ + 1]

Deliver(filepath, eventType) ==
  IF Watching(filepath)
  THEN /\ fw' = scheduleUpdate(fw, filepath, eventType, now)
       /\ hist' = Delivered(filepath, eventType)
  ELSE /\ fw' = fw
       /\ hist' = Undelivered

Advance ==
  /\ now + TickMs <= MaxClock
  /\ NoTimerDue
  /\ now' = now + TickMs
  /\ UNCHANGED <<storeVars, watcherVars, serverVars>>

\* start()
Start ==
  /\ ~fw.watcher
  /\ NoTimerDue
  /\ fw' = [fw EXCEPT !.watcher = TRUE]
  /\ UNCHANGED <<now, storeVars, fsys, emitted, hist, serverVars>>

\* stop(): the pending timeouts are cleared
Stop ==
  /\ fw.watcher
  /\ NoTimerDue
  /\ fw' = [fw EXCEPT
              !.timers = {tm \in @ : tm.id \notin Range(fw.pendingUpdates)},
              !.pendingUpdates = <<>>,
              !.watcher = FALSE]
  /\ hist' = [hist EXCEPT
                !.last = [p \in Paths |->
                            IF p \in DOMAIN fw.pendingUpdates
                            THEN [@[p] EXCEPT !.type = "none", !.aborted = @ + 1]
                            ELSE @[p]]]
  /\ UNCHANGED <<now, storeVars, fsys, emitted, serverVars>>

\* a file of the workspace is created or written
FsWrite(filepath, content) ==
  /\ hist.events < MaxEvents
  /\ NoTimerDue
  /\ fsys' = [fsys EXCEPT ![filepath] = content]
  /\ Deliver(filepath, IF fsys[filepath] = NoFile THEN "add" ELSE "change")
  /\ UNCHANGED <<now, storeVars, emitted, serverVars>>

\* a file of the workspace is deleted
FsUnlink(filepath) ==
  /\ hist.events < MaxEvents
  /\ NoTimerDue
  /\ fsys[filepath] # NoFile
  /\ fsys' = [fsys EXCEPT ![filepath] = NoFile]
  /\ Deliver(filepath, "unlink")
  /\ UNCHANGED <<now, storeVars, emitted, serverVars>>

\* a file of the workspace loses its read permission; chokidar reports no
\* event for a change of mode
FsDeny(filepath) ==
  /\ hist.events < MaxEvents
  /\ NoTimerDue
  /\ fsys[filepath] # NoFile
  /\ fsys[filepath] # Unreadable
  /\ fsys' = [fsys EXCEPT ![filepath] = Unreadable]
  /\ fw' = fw
  /\ hist' = Undelivered
  /\ UNCHANGED <<now, storeVars, emitted, serverVars>>

\* the callback of a timeout set by scheduleUpdate
TimerFire(tm) ==
  /\ tm \in fw.timers
  /\ tm.due <= now
  /\ LET r == processFileChange(fw.fileHashes, fsys, tm.filepath, tm.eventType)
     IN /\ fw' = [fw EXCEPT
                    !.timers = @ \ {tm},
                    !.pendingUpdates = MapDelete(@, tm.filepath),
                    !.fileHashes = r.fileHashes]
        /\ emitted' = emitted \o r.events
        /\ lastOp' = [op |-> "processFileChange", filepath |-> tm.filepath,
                      eventType |-> tm.eventType, outcome |-> r.outcome]
  /\ steps' = steps + 1
  /\ hist' = [hist EXCEPT !.last[tm.filepath].runs = @ + 1]
  /\ UNCHANGED <<now, graphs, heap, snapshot, fsys, serverVars>>

NextWatcher ==
  \/ Advance
  \/ Start
  \/ Stop
  \/ \E p \in WrittenPaths, c \in Contents : FsWrite(p, c)
  \/ \E p \in WrittenPaths : FsUnlink(p)
  \/ \E tm \in fw.timers : TimerFire(tm)

SpecWatcher == InitStore /\ [][NextWatcher]_vars

-----------------------------------------------------------------------------
(* Hub: state machine *)

\* the graphs handed to setGraph; the last carries a version of its own
InputGraphs ==
  { [nodes |-> <<>>, edges |-> <<>>],
    [nodes |-> << [id |-> "tool:git"] >>, edges |-> <<>>],
    [nodes |-> <<>>, edges |-> <<>>, version |-> 1, lastUpdate |-> 1] }

\* setGraph(graph)
SetGraph(graph) ==
  /\ server.calls < MaxCalls
  /\ server' = [server EXCEPT
                  !.graph = setGraph(server.graph, graph, now),
                  !.calls = @ + 1]
  /\ clients' = broadcast(clients, Frame("graph:full", server'))
  /\ UNCHANGED <<now, storeVars, watcherVars, engine, clientVars>>

\* handleConnection(ws, req)
Connect(c) ==
  /\ clients[c].readyState = "NONE"
  /\ clients' = [clients EXCEPT
                   ![c] = [readyState |-> "OPEN",
                           received |-> << Frame("state", server),
                                           Frame("graph:full", server),
                                           Frame("city:state", server) >>]]
  /\ UNCHANGED <<now, storeVars, watcherVars, server, engine, clientVars>>

\* the socket of a client closes
Close(c) ==
  /\ clients[c].readyState = "OPEN"
  /\ clients' = [clients EXCEPT ![c].readyState = "CLOSED"]
  /\ UNCHANGED <<now, storeVars, watcherVars, server, engine, clientVars>>

\* handleClientMessage(ws, { type: 'graph:request' })
GraphRequest(c) ==
  /\ clients[c].readyState = "OPEN"
  /\ Len(clients[c].received) < MaxMessages
  /\ clients' = [clients EXCEPT ![c].received = Append(@, Frame("graph:full", server))]
  /\ UNCHANGED <<now, storeVars, watcherVars, server, engine, clientVars>>

NextServer ==
  \/ Advance
  \/ \E graph \in InputGraphs : SetGraph(graph)
  \/ \E c \in 1..NumClients : Connect(c)
  \/ \E c \in 1..NumClients : Close(c)
  \/ \E c \in 1..NumClients : GraphRequest(c)

SpecServer == InitStore /\ [][NextServer]_vars

-----------------------------------------------------------------------------
(* Graph client: state machine *)

\* the client's world before a handler runs
ClientWorld == [gc |-> gc, sockets |-> sockets, emits |-> <<>>]

\* the nodes the hub sends deltas of: one id, the weight before and after
DeltaNodes == {[id |-> "tool:git", weight |-> w] : w \in {1, 2}}

\* the hub accepts the connection of socket s, which opens: ws.onopen
SocketOpen(s) ==
  /\ sockets[s].readyState = "CONNECTING"
  /\ LET C == onopen([ClientWorld EXCEPT
                        !.sockets[s].readyState = "OPEN",
                        !.sockets[s].inbox = Greeting(server)])
     IN /\ gc' = C.gc
        /\ sockets' = C.sockets
        /\ lastOp' = [op |-> "onopen", socket |-> s, current |-> gc.ws,
                      emits |-> C.emits]
  /\ UNCHANGED <<now, graphs, heap, snapshot, steps>>
  /\ UNCHANGED <<watcherVars, server, clients, engine>>

\* socket s closes, by the handshake close() began, by the hub or by a
\* failure of the connection: ws.onclose
SocketClose(s, code) ==
  /\ sockets[s].readyState # "CLOSED"
  /\ LET C == onclose([ClientWorld EXCEPT
                         !.sockets[s].readyState = "CLOSED",
                         !.sockets[s].inbox = <<>>], code)
     IN /\ gc' = C.gc
        /\ sockets' = C.sockets
        /\ lastOp' = [op |-> "onclose", socket |-> s, current |-> gc.ws,
                      code |-> code, emits |-> C.emits]
  /\ UNCHANGED <<now, graphs, heap, snapshot, steps>>
  /\ UNCHANGED <<watcherVars, server, clients, engine>>

\* a frame arrives on socket s: ws.onmessage
SocketMessage(s) ==
  /\ sockets[s].readyState = "OPEN"
  /\ sockets[s].inbox # <<>>
  /\ LET msg == Head(sockets[s].inbox)
         C == handleMessage([ClientWorld EXCEPT !.sockets[s].inbox = Tail(@)],
                            msg)
     IN /\ gc' = C.gc
        /\ sockets' = C.sockets
        /\ lastOp' = [op |-> "onmessage", socket |-> s, current |-> gc.ws,
                      msg |-> msg, emits |-> C.emits]
  /\ UNCHANGED <<now, graphs, heap, snapshot, steps>>
  /\ UNCHANGED <<watcherVars, server, clients, engine>>

\* the callback of the timeout tm that _scheduleReconnect has set runs;
\* limit bounds the sockets created
Reconnect(tm, limit) ==
  /\ tm \in gc.timeouts
  /\ LET C == connect([ClientWorld EXCEPT !.gc.reconnectTimer = 0,
                                          !.gc.timeouts = @ \ {tm}])
     IN /\ Len(C.sockets) <= limit
        /\ gc' = C.gc
        /\ sockets' = C.sockets
        /\ lastOp' = [op |-> "reconnect", current |-> gc.ws, delay |-> tm.delay,
                      emits |-> C.emits]
  /\ UNCHANGED <<now, graphs, heap, snapshot, steps>>
  /\ UNCHANGED <<watcherVars, server, clients, engine>>

ReconnectTimer(tm) == Reconnect(tm, MaxSockets)

SetUrl(wsUrl) ==
  /\ LET C == setUrl(ClientWorld, wsUrl)
     IN /\ Len(C.sockets) <= MaxSockets
        /\ gc' = C.gc
        /\ sockets' = C.sockets
        /\ lastOp' = [op |-> "setUrl", wsUrl |-> wsUrl, current |-> gc.ws,
                      emits |-> C.emits]
  /\ UNCHANGED <<now, graphs, heap, snapshot, steps>>
  /\ UNCHANGED <<watcherVars, server, clients, engine>>

Disconnect ==
  /\ LET C == disconnect(ClientWorld)
     IN /\ gc' = C.gc
        /\ sockets' = C.sockets
        /\ lastOp' = [op |-> "disconnect", current |-> gc.ws, emits |-> C.emits]
  /\ UNCHANGED <<now, graphs, heap, snapshot, steps>>
  /\ UNCHANGED <<watcherVars, server, clients, engine>>

\* sendNodeDelta(action, node) of the hub: the frame is sent on every open
\* socket; steps counts the deltas sent
SendNodeDelta(action, node) ==
  /\ steps < MaxSteps
  /\ sockets' = [s \in DOMAIN sockets |->
                   IF sockets[s].readyState = "OPEN"
                   THEN [sockets[s] EXCEPT
                           !.inbox = Append(@, NodeDelta(action, node, now))]
                   ELSE sockets[s]]
  /\ lastOp' = [op |-> "sendNodeDelta", action |-> action, node |-> node]
  /\ steps' = steps + 1
  /\ UNCHANGED <<now, graphs, heap, snapshot, gc>>
  /\ UNCHANGED <<watcherVars, server, clients, engine>>

NextClient ==
  \/ \E s \in DOMAIN sockets : SocketOpen(s)
  \/ \E s \in DOMAIN sockets, code \in {1000, 1006} : SocketClose(s, code)
  \/ \E s \in DOMAIN sockets : SocketMessage(s)
  \/ \E tm \in gc.timeouts : ReconnectTimer(tm)
  \/ \E wsUrl \in Urls : SetUrl(wsUrl)
  \/ Disconnect
  \/ \E action \in DOMAIN DeltaType, node \in DeltaNodes :
       SendNodeDelta(action, node)

SpecClient == InitStore /\ [][NextClient]_vars

\* a client whose connection fails again and again: sockets open and close,
\* the timer reconnects; setUrl may replace the first socket
NextBackoff ==
  \/ \E wsUrl \in Urls : SetUrl(wsUrl)
  \/ \E s \in DOMAIN sockets : SocketOpen(s)
  \/ \E s \in DOMAIN sockets, code \in {1000, 1006} : SocketClose(s, code)
  \/ \E tm \in gc.timeouts : Reconnect(tm, MaxReconnects + 1)

SpecBackoff == InitStore /\ [][NextBackoff]_vars

-----------------------------------------------------------------------------
(* Start script: state machine *)

\* server.start().then(...): the graph is loaded and served; the watcher is
\* created and wired only if the required name is defined
EngineStart ==
  /\ ~engine.started
  /\ server' = [server EXCEPT
                  !.graph = setGraph(server.graph, loadGraph(fsys, now), now),
                  !.calls = @ + 1]
  /\ clients' = broadcast(clients, Frame("graph:full", server'))
  /\ engine' = [started |-> TRUE, wired |-> KnowledgeWatcher # "undefined",
                failed |-> FailedFiles(fsys)]
  /\ UNCHANGED <<now, storeVars, watcherVars, clientVars>>

\* without a watcher object no event is delivered: fw stays as constructed
NextEngine ==
  \/ Advance
  \/ EngineStart
  \/ \E p \in WrittenPaths, c \in Contents : FsWrite(p, c)
  \/ \E p \in WrittenPaths : FsUnlink(p)
  \/ \E p \in WrittenPaths : FsDeny(p)
  \/ \E c \in 1..NumClients : Connect(c)

SpecEngine == InitStore /\ [][NextEngine]_vars

-----------------------------------------------------------------------------
(* Graph store: properties *)

\* a graph as its nodes and edges see it
View(g, h) == [nodes |-> g.nodes, edges |-> Deref(g.edges, h)]

\* a step that performs the operation op
Performs(op) == steps' = steps + 1 /\ lastOp'.op = op

\* what a served graph says, apart from its timestamps and its version
Content(graph) ==
  [nodes |-> {[id |-> n.id, label |-> n.label, type |-> n.type,
               weight |-> n.weight, sources |-> n.sources] : n \in Range(graph.nodes)},
   edges |-> {[source |-> e.source, target |-> e.target, weight |-> e.weight]
                : e \in Range(graph.edges)}]

\* C1: once the engine runs and no debounce timer is pending, the graph the
\* server holds equals the graph built from scratch from the files now in the
\* workspace.
C1_RebuildEquivalence ==
  (engine.started /\ fw.timers = {})
    => Content(server.graph) = Content(loadGraph(fsys, now))

\* C2: when a debounced add or change event is processed and the hash of the
\* file's current content equals the hash stored for the path, no event is
\* emitted and the hash table is left as it was.
C2_SameHashEmitsNothing ==
  [][ ( /\ Performs("processFileChange")
        /\ lastOp'.eventType \in {"add", "change"}
        /\ fsys[lastOp'.filepath] # NoFile
        /\ lastOp'.filepath \in DOMAIN fw.fileHashes
        /\ fw.fileHashes[lastOp'.filepath] = getFileHash(fsys[lastOp'.filepath]) )
      => ( /\ emitted' = emitted
           /\ fw'.fileHashes = fw.fileHashes ) ]_vars

\* a change event was processed for a file whose content hashes to the stored
\* hash, after an earlier event on the path was emitted
C2_Witness ==
  /\ lastOp.op = "processFileChange"
  /\ lastOp.outcome = "unchanged"
  /\ lastOp.eventType = "change"
  /\ Len(emitted) = 1
  /\ emitted[1].path = lastOp.filepath

TimersOf(filepath) == {tm \in fw.timers : tm.filepath = filepath}

\* C3: every burst of events on a path (each event less than debounceMs after
\* the previous one) leads to exactly one run of processFileChange for the
\* path unless stop() cancels it; the run happens no earlier than debounceMs
\* after the last event of the burst and with that event's type.
C3_DebounceCoalesces ==
  /\ [](\A p \in Paths :
          hist.last[p].runs + hist.last[p].aborted + Cardinality(TimersOf(p))
            = hist.last[p].bursts)
  /\ [][ Performs("processFileChange")
         => ( /\ now >= hist.last[lastOp'.filepath].at + DEBOUNCE_MS
              /\ lastOp'.eventType = hist.last[lastOp'.filepath].type ) ]_vars

\* a burst of two events of different types on one path was processed once,
\* as the second event
C3_Witness ==
  /\ lastOp.op = "processFileChange"
  /\ lastOp.eventType = "unlink"
  /\ hist.last[lastOp.filepath].size = 2
  /\ hist.last[lastOp.filepath].bursts = 1
  /\ hist.last[lastOp.filepath].runs = 1

\* the graph:full frames a client has received, in order
GraphFrames(c) == SelectSeq(clients[c].received, LAMBDA f : f.type = "graph:full")

AllGraphFrames == UNION {AsSetOf(GraphFrames(c)) : c \in 1..NumClients}

\* C4: every setGraph call raises graph.version by exactly 1; the versions
\* of the graph:full frames one client receives never decrease, and frames of
\* graphs set by different calls never carry the same version.
C4_VersionsIncrease ==
  /\ [][ server'.calls # server.calls
         => server'.graph.version = server.graph.version + 1 ]_vars
  /\ [](\A c \in 1..NumClients :
          LET fr == GraphFrames(c)
          IN \A i, j \in 1..Len(fr) : i < j => fr[i].version <= fr[j].version)
  /\ [](\A f, g \in AllGraphFrames : f.call # g.call => f.version # g.version)

\* a client received the graph on connecting, on two setGraph calls and on a
\* request
C4_Witness ==
  \E c \in 1..NumClients :
    LET fr == GraphFrames(c)
    IN /\ Len(fr) >= 4
       /\ {fr[i].call : i \in 1..Len(fr)} = {0, 1, 2}
       /\ \E i \in 1..(Len(fr) - 1) : fr[i].call = fr[i + 1].call

\* C5: a snapshot returned by toJSON() is a deep copy: a later addNode,
\* addEdge or buildGraph on the same graph changes no node field and no edge
\* field of it.
C5_SnapshotIsDeepCopy ==
  [][ ( /\ snapshot.of # 0
        /\ \/ Performs("addNode") \/ Performs("addEdge") \/ Performs("buildGraph")
        /\ lastOp'.k = snapshot.of )
      => View(snapshot.json, heap') = View(snapshot.json, heap) ]_vars

\* C6: in every graph, the source and the target of every edge are keys of
\* that graph's node map.
C6_EdgeEndpointsAreNodes ==
  \A k \in 1..NumGraphs :
    \A e \in DOMAIN graphs[k].edges :
      /\ heap[graphs[k].edges[e]].source \in DOMAIN graphs[k].nodes
      /\ heap[graphs[k].edges[e]].target \in DOMAIN graphs[k].nodes

\* a merge of two different graphs has produced a graph with an edge
C6_Witness ==
  /\ lastOp.op = "mergeGraphs"
  /\ lastOp.k1 # lastOp.k2
  /\ DOMAIN graphs[lastOp.k2].edges # {}
  /\ \E e \in DOMAIN graphs[lastOp.k].edges : e \notin DOMAIN graphs[lastOp.k2].edges

\* C7: every edge of a snapshot has source <= target in the order of
\* JavaScript strings.
C7_EdgeEndpointsCanonical ==
  \A e \in DOMAIN snapshot.json.edges :
    StrLeq(heap[snapshot.json.edges[e]].source, heap[snapshot.json.edges[e]].target)

\* C8: every node has firstSeen <= lastSeen, weight >= 1 and at least one
\* source.
C8_NodeWellFormed ==
  \A k \in 1..NumGraphs :
    \A id \in DOMAIN graphs[k].nodes :
      LET node == graphs[k].nodes[id]
      IN /\ node.firstSeen <= node.lastSeen
         /\ node.weight >= 1
         /\ Len(node.sources) >= 1

\* a node that was merged from two graphs after being added at two times
C8_Witness ==
  /\ lastOp.op = "mergeGraphs"
  /\ \E id \in DOMAIN graphs[lastOp.k].nodes :
       LET node == graphs[lastOp.k].nodes[id]
       IN node.weight >= 3 /\ node.firstSeen < node.lastSeen /\ Len(node.sources) >= 2

\* C9: mergeGraphs is additive.  For an id of both graphs the merged weight
\* is the sum, lastSeen the later, firstSeen the earlier and the sources the
\* union; nodes and edges of one graph only are carried over unchanged.
C9_MergeAdditive ==
  [][ Performs("mergeGraphs") =>
      LET g1 == View(graphs[lastOp'.k1], heap)
          g2 == View(graphs[lastOp'.k2], heap)
          m == View(graphs'[lastOp'.k], heap')
      IN /\ DOMAIN m.nodes = DOMAIN g1.nodes \cup DOMAIN g2.nodes
         /\ DOMAIN m.edges = DOMAIN g1.edges \cup DOMAIN g2.edges
         /\ \A id \in DOMAIN m.nodes :
              IF id \in DOMAIN g1.nodes /\ id \in DOMAIN g2.nodes
              THEN /\ m.nodes[id].weight = g1.nodes[id].weight + g2.nodes[id].weight
                   /\ m.nodes[id].lastSeen = Max(g1.nodes[id].lastSeen, g2.nodes[id].lastSeen)
                   /\ m.nodes[id].firstSeen = Min(g1.nodes[id].firstSeen, g2.nodes[id].firstSeen)
                   /\ AsSetOf(m.nodes[id].sources) =
                        AsSetOf(g1.nodes[id].sources) \cup AsSetOf(g2.nodes[id].sources)
              ELSE IF id \in DOMAIN g1.nodes THEN m.nodes[id] = g1.nodes[id]
              ELSE m.nodes[id] = g2.nodes[id]
         /\ \A e \in DOMAIN m.edges :
              IF e \in DOMAIN g1.edges /\ e \in DOMAIN g2.edges
              THEN /\ m.edges[e].weight = g1.edges[e].weight + g2.edges[e].weight
                   /\ m.edges[e].lastSeen = Max(g1.edges[e].lastSeen, g2.edges[e].lastSeen)
              ELSE IF e \in DOMAIN g1.edges THEN m.edges[e] = g1.edges[e]
              ELSE m.edges[e] = g2.edges[e] ]_vars

\* a merge into the first graph's slot of two graphs that share a node and an
\* edge, seen at different times; the second has a node and the first an edge
\* that the other lacks
C9_Witness ==
  /\ lastOp.op = "mergeGraphs"
  /\ lastOp.k1 # lastOp.k2 /\ lastOp.k = lastOp.k1
  /\ LET m == View(graphs[lastOp.k], heap)
         g2 == View(graphs[lastOp.k2], heap)
     IN /\ \E id \in DOMAIN g2.nodes :
             /\ m.nodes[id].weight > g2.nodes[id].weight
             /\ m.nodes[id].firstSeen < g2.nodes[id].firstSeen
             /\ Len(m.nodes[id].sources) > Len(g2.nodes[id].sources)
        /\ \E e \in DOMAIN g2.edges : m.edges[e].weight > g2.edges[e].weight
        /\ \E id \in DOMAIN g2.nodes : m.nodes[id] = g2.nodes[id]
        /\ \E e \in DOMAIN m.edges : e \notin DOMAIN g2.edges

\* the ids extracted from one paragraph
ParagraphIds(entities) == {it.id : it \in AsSetOf(ParagraphItems(entities))}

\* the number of paragraphs of a text from which both ids are extracted
CoOccurrences(markdown, a, b) ==
  LET paragraphs == extractByParagraph(markdown)
  IN Cardinality({i \in 1..Len(paragraphs) :
                    a \in ParagraphIds(paragraphs[i]) /\ b \in ParagraphIds(paragraphs[i])})

EdgeWeight(g, h, e) == IF e \in DOMAIN g.edges THEN h[g.edges[e]].weight ELSE 0

AllIds ==
  DirectIds \cup
  UNION {ParagraphIds(p) : p \in UNION {AsSetOf(extractByParagraph(d)) : d \in Docs}}

\* C10: buildGraph raises the count of the edge between two ids only when
\* both are extracted from one paragraph of the document; ids that share no
\* paragraph get nothing, ids that share exactly one paragraph get count 1.
C10_CoOccurrenceParagraphScoped ==
  [][ Performs("buildGraph") =>
      \A a, b \in AllIds :
        a # b =>
          LET k == lastOp'.k
              n == CoOccurrences(lastOp'.markdown, a, b)
              inc == EdgeWeight(graphs'[k], heap', EdgeId(a, b))
                       - EdgeWeight(graphs[k], heap, EdgeId(a, b))
          IN /\ n = 0 => inc = 0
             /\ n = 1 => inc = 1 ]_vars


\* the graph buildGraphFromFiles returns for a list of files
Built(files, t) ==
  LET W == buildGraphFromFiles([graphs |-> <<KnowledgeGraph(t)>>, heap |-> <<>>], 1, files, t)
  IN W.graphs[1]

\* the lists that hold the same files as a list, in any order
Reorderings(files) == Arrangements(AsSetOf(files))

\* C11: buildGraphFromFiles yields the same node ids and the same edge ids
\* for every ordering of the same files.
C11_BuildOrderIndependent ==
  [][ Performs("buildGraphFromFiles") =>
      \A g \in {Built(q, now) : q \in Reorderings(lastOp'.files)} :
        /\ DOMAIN g.nodes = DOMAIN graphs'[lastOp'.k].nodes
        /\ DOMAIN g.edges = DOMAIN graphs'[lastOp'.k].edges ]_vars

\* a graph with edges was built from three files, the first of them with a
\* path that sorts after the second
C11_Witness ==
  /\ lastOp.op = "buildGraphFromFiles"
  /\ Len(lastOp.files) = 3
  /\ lastOp.files[1].source = "memory/2026-01-15.md"
  /\ lastOp.files[2].source = "MEMORY.md"
  /\ Cardinality(DOMAIN graphs[lastOp.k].edges) >= 2


\* C12: buildGraph with a further document removes no node and no edge of
\* the graph and lowers no node's mention count and no edge's co-occurrence
\* count.
C12_BuildMonotone ==
  [][ Performs("buildGraph") =>
      LET old == View(graphs[lastOp'.k], heap)
          new == View(graphs'[lastOp'.k], heap')
      IN /\ DOMAIN old.nodes \subseteq DOMAIN new.nodes
         /\ DOMAIN old.edges \subseteq DOMAIN new.edges
         /\ \A id \in DOMAIN old.nodes : new.nodes[id].weight >= old.nodes[id].weight
         /\ \A e \in DOMAIN old.edges : new.edges[e].weight >= old.edges[e].weight ]_vars

\* a document was added to a graph that held a node the document does not
\* mention, and raised the count of an edge the graph had
C12_Witness ==
  /\ lastOp.op = "buildGraph"
  /\ LET g == View(graphs[lastOp.k], heap)
         mentioned == UNION {ParagraphIds(p) : p \in AsSetOf(extractByParagraph(lastOp.markdown))}
     IN /\ \E id \in DOMAIN g.nodes : id \notin mentioned
        /\ \E e \in DOMAIN g.edges :
             /\ g.edges[e].weight >= 2
             /\ g.edges[e].source \in mentioned
             /\ g.edges[e].target \in mentioned


\* the greatest source weight over the sources of a node, at least 1
sourceBonus(sources) == MaxOver(sources, getSourceWeight, 1)

\* C13: in the graph the engine hands to the hub, every node's displayWeight
\* is its mention count times its decay factor (1 at age 0) times the
\* greatest source weight of its sources, applied once.
C13_DisplayWeight ==
  engine.started =>
    \A n \in Range(server.graph.nodes) :
      n.displayWeight = n.weight * 1 * sourceBonus(n.sources.Set)

\* the graph:full frames of the graph set by the latest setGraph call
LatestFrames(c) == SelectSeq(GraphFrames(c), LAMBDA f : f.call = server.calls)

\* C14: every node of a graph:full frame of the engine's graph carries its
\* sources as the list of the paths of the documents that mention it.
C14_SourcesSerialized ==
  engine.started =>
    \A c \in 1..NumClients :
      \A f \in AsSetOf(LatestFrames(c)) :
        \A id \in DOMAIN f.graph.nodes :
          f.graph.nodes[id].sources = JsonArray(server.graph.nodes[id].sources.Set)


FactorLeq(a, b) == a.zero \/ (~b.zero /\ a.num * b.den >= b.num * a.den)

FactorEq(a, b) == FactorLeq(a, b) /\ FactorLeq(b, a)

\* display weights of one entity at two times: the coefficient is the same
DisplayLeq(a, b) == a.coef = b.coef /\ (a.coef = 0 \/ FactorLeq(a.factor, b.factor))

\* what applyDecayToGraph gave one entity, whose half-life is halfLife
DecayLaw(x, at, halfLife) ==
  LET age == at - x.lastSeen
  IN /\ age <= 0 => FactorEq(x.decayFactor, Pow05(0, 1))
     /\ age > 0 => FactorEq(x.decayFactor, Pow05(age, halfLife))
     /\ age = halfLife => FactorEq(x.decayFactor, Pow05(1, 1))
     /\ age = 2 * halfLife => FactorEq(x.decayFactor, Pow05(2, 1))
     /\ x.displayWeight.coef >= 0
     /\ ~x.displayWeight.factor.zero => x.displayWeight.factor.den > 0

\* C16: the decay factor is 1 for an age <= 0 and 0.5^(age/H) for an age > 0,
\* so 0.5 at age H and 0.25 at age 2H; no display weight is negative, and for
\* a fixed graph a later now gives no node and no edge a greater display
\* weight.
C16_DecayLaw ==
  [][ Performs("applyDecayToGraph") =>
      LET r == lastOp'.result
      IN /\ \A id \in DOMAIN r.nodes :
              DecayLaw(r.nodes[id], lastOp'.at, getHalfLife(r.nodes[id].type))
         /\ \A e \in DOMAIN r.edges :
              DecayLaw(r.edges[e], lastOp'.at, HALF_LIVES["default"])
         /\ (lastOp.op = "applyDecayToGraph" /\ lastOp.at <= lastOp'.at) =>
              /\ \A id \in DOMAIN r.nodes :
                   DisplayLeq(r.nodes[id].displayWeight, lastOp.result.nodes[id].displayWeight)
              /\ \A e \in DOMAIN r.edges :
                   DisplayLeq(r.edges[e].displayWeight, lastOp.result.edges[e].displayWeight) ]_vars

\* the third operation decayed a graph with an edge one half-life of its
\* ticker after the ticker was last seen
C16_Witness ==
  /\ lastOp.op = "applyDecayToGraph"
  /\ steps = 3
  /\ DOMAIN lastOp.result.edges # {}
  /\ \E id \in DOMAIN lastOp.result.nodes :
       /\ lastOp.result.nodes[id].type = "ticker"
       /\ lastOp.result.nodes[id].age = HALF_LIVES["ticker"]
       /\ lastOp.result.nodes[id].sourceBonus > 1

\* the workspace without the files that cannot be read
Readable(fs) == [p \in DOMAIN fs |-> IF fs[p] = Unreadable THEN NoFile ELSE fs[p]]

\* C17: at every load of the start script the files whose read fails are
\* passed over: the graph is still published (setGraph is called and every
\* open client receives it) and it is the graph built from the files that
\* can be read.
C17_ReadErrorSkipsFile ==
  [][ (~engine.started /\ engine'.started) =>
        /\ server'.calls = server.calls + 1
        /\ \A g \in {loadGraph(Readable(fsys), now)} :
              Content(server'.graph) = Content(g)
        /\ \A c \in 1..NumClients :
              clients[c].readyState = "OPEN" =>
                /\ Len(clients'[c].received) = Len(clients[c].received) + 1
                /\ clients'[c].received[Len(clients'[c].received)].type = "graph:full"
    ]_vars

\* the engine started while a file could not be read, and serves the
\* entities of another file
C17_Witness ==
  /\ engine.started
  /\ engine.failed # {}
  /\ server.graph.nodes # <<>>

\* C18: every file the start script folds into the graph is watched: while
\* the watcher runs, a write that changes the content of any of them
\* schedules an update for that path, from which its event follows.
C18_LoadedFilesWatched ==
  [][ \A p \in Paths :
        ( /\ fw.watcher
          /\ fsys'[p] # NoFile
          /\ fsys'[p] # Unreadable
          /\ fsys'[p] # fsys[p] )
          => p \in DOMAIN fw'.pendingUpdates
    ]_<<hist, vars>>

\* the edges of graph k that join a and b, in either direction
EdgesBetween(k, a, b) ==
  {e \in DOMAIN graphs[k].edges :
     {heap[graphs[k].edges[e]].source, heap[graphs[k].edges[e]].target} = {a, b}}

\* the weight of the edge with this id in graph g, 0 when there is none
WeightOf(g, h, edgeId) ==
  IF edgeId \in DOMAIN g.edges THEN h[g.edges[edgeId]].weight ELSE 0

\* C19: addEdge(a, b) and addEdge(b, a) address the same edge: the edge id
\* is the same for both orders, a graph never holds two edges between the
\* same two nodes, and every call, in either order, adds one to the count
\* of that one edge and touches no other.
C19_EdgeSymmetry ==
  /\ [](\A k \in 1..NumGraphs : \A a, b \in DirectIds :
          Cardinality(EdgesBetween(k, a, b)) <= 1)
  /\ [][ Performs("addEdge") =>
          \A k \in {lastOp'.k} : \A a \in {lastOp'.sourceId} : \A b \in {lastOp'.targetId} :
            /\ EdgeId(a, b) = EdgeId(b, a)
            /\ DOMAIN graphs'[k].edges = DOMAIN graphs[k].edges \cup {EdgeId(a, b)}
            /\ WeightOf(graphs'[k], heap', EdgeId(b, a))
                 = WeightOf(graphs[k], heap, EdgeId(a, b)) + 1
            /\ \A e \in DOMAIN graphs[k].edges \ {EdgeId(a, b)} :
                 WeightOf(graphs'[k], heap', e) = WeightOf(graphs[k], heap, e)
      ]_vars

\* addEdge(a, b) then addEdge(b, a), a # b: one edge, of count 2
C19_Witness ==
  /\ steps = 2
  /\ lastOp.op = "addEdge"
  /\ lastOp.sourceId # lastOp.targetId
  /\ DOMAIN graphs[lastOp.k].edges = {EdgeId(lastOp.sourceId, lastOp.targetId)}
  /\ \A e \in Range(Deref(graphs[lastOp.k].edges, heap)) :
        /\ e.weight = 2
        /\ e.source = lastOp.targetId
        /\ e.target = lastOp.sourceId

\* the mention count of id in graph g, 0 when g has no such node
CountOf(g, id) == IF id \in DOMAIN g.nodes THEN g.nodes[id].weight ELSE 0

\* how many times source occurs among the sources of a node
Occurrences(sources, source) ==
  Cardinality({i \in 1..Len(sources) : sources[i] = source})

C21_EmptyDocumentNoMutation ==
  [][ (Performs("buildGraph") /\ lastOp'.markdown = DocEmpty) =>
        /\ extractByParagraph(lastOp'.markdown) = <<>>
        /\ \A j \in 1..NumGraphs : View(graphs'[j], heap') = View(graphs[j], heap)
    ]_vars

\* an empty document was built into a graph that has an edge and a node last
\* seen at an earlier time
C21_Witness ==
  /\ lastOp.op = "buildGraph"
  /\ lastOp.markdown = DocEmpty
  /\ DOMAIN graphs[lastOp.k].edges # {}
  /\ \E id \in DOMAIN graphs[lastOp.k].nodes : graphs[lastOp.k].nodes[id].lastSeen < now

\* how many times x occurs in seq
CountIn(seq, x) == Cardinality({i \in 1..Len(seq) : seq[i] = x})

\* C22: groupByDecay puts every node that has a display weight in exactly
\* one bucket: strong if the weight is above 0.7, stable if it is from 0.3 to
\* 0.7, both included, fading otherwise.
C22_DecayBuckets ==
  lastOp.op = "groupByDecay" =>
    \A n \in AsSetOf(lastOp.nodes) :
      n.displayWeight # <<>> =>
        LET w == n.displayWeight[1]
            g == lastOp.groups
            bucket == IF w > 7 THEN "strong" ELSE IF w >= 3 THEN "stable" ELSE "fading"
        IN /\ CountIn(g.fading, n) + CountIn(g.stable, n) + CountIn(g.strong, n)
                = CountIn(lastOp.nodes, n)
           /\ CountIn(g[bucket], n) = CountIn(lastOp.nodes, n)

\* the runs that appear as $RUN in a text
Cashtags(markdown) == AsSetOf(TextsOf(markdown, {"cashtag"}))

\* C23: a run is extracted as a ticker only if it is in the whitelist (the
\* known tickers of the city script; the extractor has no list of its own),
\* or it is not in the stop list and appears as $RUN in the text.
C23_TickerNeedsCashtag ==
  lastOp.op = "extractEntities" =>
    \A t \in AsSetOf(lastOp.entities.tickers) :
      \/ t \in VALID_TICKERS
      \/ t \notin TICKER_BLACKLIST /\ t \in Cashtags(lastOp.markdown)

Abs(v) == IF v < 0 THEN -v ELSE v

\* C24: every building that generateBuildings emits has max(|x|, |z|) <= 80
\* (800 tenths), and no more than 100 buildings are emitted.
C24_LayoutBounded ==
  lastOp.op = "generateBuildings" =>
    /\ Len(lastOp.buildings) <= TopEntities
    /\ \A i \in 1..Len(lastOp.buildings) :
          /\ Abs(lastOp.buildings[i].x) <= 800
          /\ Abs(lastOp.buildings[i].z) <= 800

\* more entities than are kept were laid out in one district: a hundred
\* buildings, one of them more than 50 away from the origin
C24_Witness ==
  /\ lastOp.op = "generateBuildings"
  /\ lastOp.count > TopEntities
  /\ Len(lastOp.buildings) = TopEntities
  /\ \E i \in 1..Len(lastOp.buildings) :
        Abs(lastOp.buildings[i].x) > 500 \/ Abs(lastOp.buildings[i].z) > 500

\* what the claim compares of a building
Placed(buildings) ==
  [i \in 1..Len(buildings) |->
     [id |-> buildings[i].id, x |-> buildings[i].x, z |-> buildings[i].z,
      height |-> buildings[i].height]]

\* C25: two runs of the projector on the same files (same contents, same
\* modification times) give the same buildings (ids, order, positions,
\* heights) and the same connections, whenever each run happens.
C25_LayoutDeterministic ==
  [][ ( /\ lastOp.op = "main"
        /\ Performs("main")
        /\ lastOp'.workspace = lastOp.workspace )
      => /\ Placed(lastOp'.buildings) = Placed(lastOp.buildings)
         /\ lastOp'.connections = lastOp.connections ]_vars

\* C26: no graph that buildGraph produces has an edge from a node to
\* itself.
C26_NoSelfEdges ==
  \A k \in 1..NumGraphs :
    \A e \in Range(Deref(graphs[k].edges, heap)) : e.source # e.target

\* C27: buildGraph raises the mention count of a node by at most 1 for each
\* paragraph of the document: by at most 1 when the document is a single
\* paragraph.
C27_ParagraphDedupe ==
  [][ Performs("buildGraph") =>
        \A k \in {lastOp'.k} :
        \A n \in {Len(extractByParagraph(lastOp'.markdown))} :
        \A id \in DOMAIN graphs'[k].nodes :
          graphs'[k].nodes[id].weight - CountOf(graphs[k], id) <= n
    ]_vars


\* C28: mergeGraphs leaves both of its inputs unchanged: the nodes and the
\* edge objects of graph1 and of graph2 are after the merge what they were
\* before it (an input whose slot receives the merged graph is not looked at).
C28_MergeLeavesInputs ==
  [][ Performs("mergeGraphs") =>
        \A k \in {lastOp'.k1, lastOp'.k2} \ {lastOp'.k} :
          View(graphs'[k], heap') = View(graphs[k], heap)
    ]_vars


\* the frames sendNodeDelta produces
IsNodeDelta(msg) == msg.type \in Range(DeltaType)

\* C29: when a frame that sendNodeDelta(action, node) has sent is handled by
\* a connected GraphClient on its current socket, the client's node list
\* reflects it: after add the node is in the list, after update the node of
\* this id that was in the list carries the fields sent, after remove no node
\* of this id is in the list.
C29_DeltaReflected ==
  [][ ( /\ lastOp'.op = "onmessage"
        /\ IsNodeDelta(lastOp'.msg)
        /\ lastOp'.socket = gc.ws
        /\ gc.connected )
      => \A msg \in {lastOp'.msg} :
         \A before \in {gc.graph.nodes} :
         \A after \in {gc'.graph.nodes} :
           /\ msg.type = DeltaType.add => msg.node \in Range(after)
           /\ msg.type = DeltaType.update /\ FindIndex(before, msg.node.id) > 0
                => msg.node \in Range(after)
           /\ msg.type = DeltaType.remove
                => FindIndex(after, msg.node.id) = 0
    ]_vars

\* connected only while the current socket is open
ConnectedMeansOpen ==
  gc.connected => gc.ws # NoSocket /\ sockets[gc.ws].readyState = "OPEN"

\* an event of a socket that is not the current one, a current one existing,
\* neither sets connected to false nor emits 'disconnect'
StaleEventsIgnored ==
  ( /\ lastOp'.op \in {"onopen", "onclose"}
    /\ gc.ws # NoSocket
    /\ lastOp'.socket # gc.ws )
  => /\ gc.connected => gc'.connected
     /\ "disconnect" \notin Range(lastOp'.emits)

\* C30: GraphClient.connected is true only while the current socket is open,
\* and the events of a socket that setUrl() or a reconnect has replaced never
\* set connected to false and never emit 'disconnect' for the new socket.
C30_CurrentSocketOnly ==
  []ConnectedMeansOpen /\ [][StaleEventsIgnored]_vars


\* C31: once disconnect() has returned (this.ws is null) and until setUrl()
\* is called, no reconnect timer is pending or gets scheduled and no socket
\* is created, whatever close code the closed socket reports.
C31_DisconnectIsFinal ==
  [][ gc.ws = NoSocket /\ lastOp'.op # "setUrl"
        => /\ gc'.reconnectTimer = 0
           /\ Len(sockets') = Len(sockets)
    ]_vars


\* the pending timeouts of a path
PendingOf(w, filepath) == {tm \in w.timers : tm.filepath = filepath}

\* C32: the FileWatcher holds at most one pending debounce timeout per path,
\* and the delivery of a file system event on one path leaves the pending
\* timeouts of every other path as they were.
C32_OneTimerPerPath ==
  /\ [](\A p \in Paths : Cardinality(PendingOf(fw, p)) <= 1)
  /\ [][ hist'.events = hist.events + 1 =>
           \A q \in Paths :
             hist'.last[q] = hist.last[q] => PendingOf(fw', q) = PendingOf(fw, q)
       ]_<<hist, vars>>

\* two paths have a timeout pending, set at different times
C32_Witness ==
  \E tm1, tm2 \in fw.timers :
    /\ tm1.filepath # tm2.filepath
    /\ tm1.due < tm2.due
    /\ hist.last[tm2.filepath].at > hist.last[tm1.filepath].at


\* the events emitted for a path, in order
EmittedFor(filepath) == SelectSeq(emitted, LAMBDA e : e.path = filepath)

\* the event emitted last for the path is 'file:deleted'
DeletedLast(filepath) ==
  /\ EmittedFor(filepath) # <<>>
  /\ EmittedFor(filepath)[Len(EmittedFor(filepath))].event = "file:deleted"

\* C33: when an unlink event is processed the hash stored for the path is
\* removed and 'file:deleted' is emitted for it; when afterwards an add or
\* change event is processed for the path and the file is there again,
\* 'file:changed' is emitted, whatever the content.
C33_UnlinkForgetsHash ==
  [][ Performs("processFileChange") =>
        \A p \in {lastOp'.filepath} :
          /\ lastOp'.eventType = "unlink" =>
               /\ p \notin DOMAIN fw'.fileHashes
               /\ emitted' = Append(emitted, [event |-> "file:deleted", path |-> p])
          /\ ( /\ lastOp'.eventType \in {"add", "change"}
               /\ DeletedLast(p)
               /\ fsys[p] # NoFile )
             => /\ Len(emitted') = Len(emitted) + 1
                /\ emitted'[Len(emitted')].event = "file:changed"
                /\ emitted'[Len(emitted')].path = p
    ]_<<hist, vars>>

\* a file was written, its change emitted, then deleted, its deletion
\* emitted, then created again with the same content, and the change emitted
C33_Witness ==
  /\ lastOp.op = "processFileChange"
  /\ lastOp.outcome = "changed"
  /\ \E i, j, k \in DOMAIN emitted :
       /\ i < j /\ j < k /\ k = Len(emitted)
       /\ emitted[i].path = lastOp.filepath /\ emitted[i].event = "file:changed"
       /\ emitted[j].path = lastOp.filepath /\ emitted[j].event = "file:deleted"
       /\ emitted[k].path = lastOp.filepath /\ emitted[k].event = "file:changed"
       /\ emitted[i].content = emitted[k].content
  /\ hist.last[lastOp.filepath].bursts = 3


Backoff(n) ==
  IF n >= 10 THEN 30000
  ELSE <<1000, 1500, 2250, 3375, 5062, 7593, 11390, 17085, 25628>>[n]

\* C35: every close with a code other than 1000 leaves a reconnect timer
\* pending; when it sets one, the attempt counter goes up by one to n and the
\* delay is min(reconnectDelay * 1.5^(n-1), maxReconnectDelay); at most one
\* timer is pending at any time; an open sets the attempt counter to 0.
C35_ExponentialBackoff ==
  /\ [](Cardinality(gc.timeouts) <= 1)
  /\ [][ /\ ( lastOp'.op = "onclose" /\ lastOp'.code # 1000 ) =>
              /\ gc'.reconnectTimer # 0
              /\ \E tm \in gc'.timeouts : tm.id = gc'.reconnectTimer
              /\ gc.reconnectTimer = 0 =>
                   /\ gc'.reconnectAttempts = gc.reconnectAttempts + 1
                   /\ \A tm \in gc'.timeouts \ gc.timeouts :
                        tm.delay = Backoff(gc'.reconnectAttempts)
         /\ lastOp'.op = "onopen" => gc'.reconnectAttempts = 0
         /\ lastOp'.op = "reconnect" /\ gc.ws = NoSocket =>
              Len(sockets') = Len(sockets) + 1
       ]_vars

\* the eleventh reconnection in a row is pending, at the greatest delay
C35_Witness ==
  /\ lastOp.op = "onclose"
  /\ gc.reconnectAttempts = MaxReconnects
  /\ \E tm \in gc.timeouts : tm.id = gc.reconnectTimer /\ tm.delay = maxReconnectDelay


\* C36: what a client has received starts with the state, the full graph and
\* the city state, in this order, sent when it connected; the full graph is
\* the one the hub held at that time; every broadcast frame comes after them.
C36_GreetingFirst ==
  /\ [](\A c \in 1..NumClients :
          clients[c].received # <<>> =>
            /\ Len(clients[c].received) >= 3
            /\ clients[c].received[1].type = "state"
            /\ clients[c].received[2].type = "graph:full"
            /\ clients[c].received[3].type = "city:state")
  /\ [][ \A c \in 1..NumClients :
           clients[c].readyState = "NONE" /\ clients'[c].readyState = "OPEN" =>
             /\ Len(clients'[c].received) = 3
             /\ clients'[c].received[2] = Frame("graph:full", server)
       ]_vars

\* a client connected after the graph had been set, and has since received
\* the broadcast of a later graph
C36_Witness ==
  \E c \in 1..NumClients :
    /\ Len(clients[c].received) >= 4
    /\ clients[c].received[2].version >= 1
    /\ clients[c].received[4].type = "graph:full"
    /\ clients[c].received[4].version > clients[c].received[2].version


\* C37: for every entity type, the district of a building that main()
\* writes is the district whose keyword list has the most keywords in the
\* lower-cased label: the earlier-declared district on a tie, memory when
\* no keyword matches.
C37_DistrictByKeywords ==
  lastOp.op = "main" =>
    \A i \in 1..Len(lastOp.buildings) :
      lastOp.buildings[i].district = classifyToDistrict(lastOp.buildings[i].label)

\* the rule for the entities that extractEntities classifies: topics
TopicsByKeywords ==
  lastOp.op = "main" =>
    \A i \in 1..Len(lastOp.buildings) :
      lastOp.buildings[i].type = "topic" =>
        lastOp.buildings[i].district = classifyToDistrict(lastOp.buildings[i].label)

\* a topic whose label ties two districts is placed in the earlier one
TopicTie ==
  /\ lastOp.op = "main"
  /\ \E i \in 1..Len(lastOp.buildings) :
       /\ lastOp.buildings[i].type = "topic"
       /\ lastOp.buildings[i].district = "trading"
       /\ score(ToLowerCase(lastOp.buildings[i].label), "trading")
            = score(ToLowerCase(lastOp.buildings[i].label), "infrastructure")


\* C38: analyzeActiveDistrict divides the district scores by their maximum:
\* every district activity lies in (0, 1], and the active district that
\* main() reports has activity exactly 1, and is the earliest-declared
\* district that has.
C38_ActivityNormalized ==
  lastOp.op = "main" =>
    /\ \A d \in DOMAIN lastOp.districtActivity :
         /\ lastOp.districtActivity[d].num > 0
         /\ lastOp.districtActivity[d].num <= lastOp.districtActivity[d].den
    /\ \E i \in 1..Len(DistrictNames) :
         /\ lastOp.activeDistrict = DistrictNames[i]
         /\ lastOp.districtActivity[DistrictNames[i]].num
              = lastOp.districtActivity[DistrictNames[i]].den
         /\ \A j \in 1..(i - 1) :
              lastOp.districtActivity[DistrictNames[j]].num
                < lastOp.districtActivity[DistrictNames[j]].den

\* a run in which two districts share the greatest score, above the base
\* score, the earlier-declared of them is reported, and a third district
\* has an activity below 1
C38_Witness ==
  /\ lastOp.op = "main"
  /\ lastOp.activeDistrict = "trading"
  /\ lastOp.districtActivity["trading"].num = lastOp.districtActivity["trading"].den
  /\ lastOp.districtActivity["infrastructure"].num
       = lastOp.districtActivity["infrastructure"].den
  /\ lastOp.districtActivity["memory"].num < lastOp.districtActivity["memory"].den
  /\ lastOp.districtActivity["trading"].den > 30

\* C39: the connections main() writes hold at most one entry per unordered
\* pair of buildings, the links from the districts to the core included.
C39_OneConnectionPerPair ==
  lastOp.op = "main" =>
    \A i, j \in 1..Len(lastOp.connections) :
      i < j =>
        {lastOp.connections[i].from, lastOp.connections[i].to}
          # {lastOp.connections[j].from, lastOp.connections[j].to}

\* the connections of strength 0.5, those of the shared source files, hold
\* at most one entry per unordered pair
FilePairsOnce ==
  lastOp.op = "main" =>
    \A i, j \in 1..Len(lastOp.connections) :
      (i < j /\ lastOp.connections[i].strength = 5 /\ lastOp.connections[j].strength = 5) =>
        {lastOp.connections[i].from, lastOp.connections[i].to}
          # {lastOp.connections[j].from, lastOp.connections[j].to}

====
